---- MODULE Spec2Model ----
(***************************************************************************)
(* Document processing pipeline of the contract-obligation manager:        *)
(* the process-documents edge function (serve handler, processDocument,    *)
(* analyzeDocument, cleanupFile) in its three deployed generations, the    *)
(* documents table it reads and writes, and the response normalisation.    *)
(*                                                                         *)
(*   "assistants"  src/supabase/functions/process-documents/index.ts       *)
(*   "responses"   src/unnamed/part_001 lines 1-356                        *)
(*   "chat"        src/unnamed/part_001 lines 580-1074                     *)
(***************************************************************************)
EXTENDS Naturals, Sequences, FiniteSets

\* ------------------------------------------------------------------ bounds

\* Number of document ids that may be enqueued.
MaxDocs == 2
\* Number of batch invocations of the edge function in one behaviour.
MaxBatches == 2
\* Longest provider text, in tokens, the normalisation is applied to.
MaxLen == 4
\* Largest number of obligations the fetched documents hold together.
MaxObls == 3

\* Largest number of fetchContracts calls of one mounted page.
MaxFetches == 4

\* Largest number of POSTs to the export webhook.
MaxExports == 1

\* Submits of the Upload form in one behaviour.
MaxSubmits == 2

Docs == 1..MaxDocs

Variants == {"assistants", "responses", "chat"}

\* ------------------------------------------------------- provider texts
\* A provider text is a sequence of tokens. "obj" is one JSON object literal,
\* "null" the JSON literal null, "w" a run of prose, "fence" a Markdown code
\* fence (either "```json\n" or "```").
Tok == {"[", "]", ",", "obj", "null", "w", "fence"}

RECURSIVE TextsOfLen(_)
TextsOfLen(n) ==
  IF n = 0 THEN {<<>>}
  ELSE {Append(t, x) : t \in TextsOfLen(n - 1), x \in Tok}

RECURSIVE TextsUpTo(_)
TextsUpTo(n) == IF n = 0 THEN TextsOfLen(0) ELSE TextsOfLen(n) \cup TextsUpTo(n - 1)

\* The texts the provider answers with in the pipeline specification.
SampleTexts ==
  { <<"[", "]">>,
    <<"fence", "[", "obj", "]", "fence">>,
    <<"fence", "w", "fence">>,
    <<"obj">>,
    <<"null">>,
    <<>> }

\* ------------------------------------------------------------ JSON values
JNull == [kind |-> "null"]
JObj == [kind |-> "object"]
JArr(items) == [kind |-> "array", items |-> items]

ParseFail == [ok |-> FALSE, val |-> JNull, next |-> 0]

\* JSON.parse over the token alphabet: one value, nothing before or after it.
RECURSIVE ParseValue(_, _), ParseItems(_, _, _)
ParseValue(s, i) ==
  IF i > Len(s) THEN ParseFail
  ELSE IF s[i] = "obj" THEN [ok |-> TRUE, val |-> JObj, next |-> i + 1]
  ELSE IF s[i] = "null" THEN [ok |-> TRUE, val |-> JNull, next |-> i + 1]
  ELSE IF s[i] = "["
    THEN IF i + 1 <= Len(s) /\ s[i + 1] = "]"
           THEN [ok |-> TRUE, val |-> JArr(<<>>), next |-> i + 2]
           ELSE ParseItems(s, i + 1, <<>>)
  ELSE ParseFail

ParseItems(s, i, acc) ==
  LET v == ParseValue(s, i) IN
  IF ~v.ok \/ v.next > Len(s) THEN ParseFail
  ELSE IF s[v.next] = "]"
    THEN [ok |-> TRUE, val |-> JArr(Append(acc, v.val)), next |-> v.next + 1]
  ELSE IF s[v.next] = ","
    THEN ParseItems(s, v.next + 1, Append(acc, v.val))
  ELSE ParseFail

JSONparse(t) ==
  LET r == ParseValue(t, 1) IN
  IF r.ok /\ r.next = Len(t) + 1
    THEN [ok |-> TRUE, val |-> r.val]
    ELSE [ok |-> FALSE, val |-> JNull]

\* jsonText.replace(/```json\n|\```/g, ''): every fence is removed.
stripFences(t) == SelectSeq(t, LAMBDA x : x # "fence")

\* text.match(/\[[\s\S]*\]/): greedy, from the first "[" to the last "]".
regexMatch(t) ==
  LET opens == {i \in 1..Len(t) : t[i] = "["}
      first == CHOOSE i \in opens : \A j \in opens : i <= j
      closes == {i \in 1..Len(t) : t[i] = "]" /\ i > first}
      last == CHOOSE i \in closes : \A j \in closes : j <= i
  IN IF opens = {} THEN [found |-> FALSE, text |-> <<>>]
     ELSE IF closes = {} THEN [found |-> FALSE, text |-> <<>>]
     ELSE [found |-> TRUE, text |-> SubSeq(t, first, last)]

\* The one-element obligation list stored when no list could be extracted.
Placeholder(msg, raw) ==
  JArr(<< [kind |-> "object", obligation |-> msg, section |-> "N/A",
           raw_response |-> raw] >>)

IsPlaceholder(v) ==
  /\ v.kind = "array"
  /\ Len(v.items) = 1
  /\ "raw_response" \in DOMAIN v.items[1]

\* ------------------------------------------- response normalisation
\* Responses generation, direct parse: JSON.parse(jsonText) followed by the log
\* line that reads obligations.length. A parsed null makes that read throw, so
\* the value is kept only when it is not null; any other JSON value is kept.
directParse_keepsNull(jsonText) ==
  LET p == JSONparse(jsonText) IN [ok |-> p.ok, val |-> p.val]

directParse(jsonText) ==
  LET p == JSONparse(jsonText) IN
  [ok |-> p.ok /\ p.val.kind # "null", val |-> p.val]

\* Responses generation: the text of the output_text item to the stored value.
outputTextObligations(text) ==
  LET jsonText == stripFences(text)
      d == directParse(jsonText)
      m == regexMatch(jsonText)
      q == JSONparse(m.text)
  IN IF d.ok THEN d.val
     ELSE IF ~m.found THEN Placeholder("Could not extract JSON from response", jsonText)
     ELSE IF q.ok THEN q.val
     ELSE Placeholder("Error parsing AI response", jsonText)

\* What the provider's inference endpoint can answer with (Responses API):
\* an envelope without output[0].content, one whose inspection throws, or one
\* with an output_text item (an empty text is falsy, as a missing item is).
ResponsesEnvelopes ==
  {[shape |-> "unexpected", text |-> <<>>], [shape |-> "throws", text |-> <<>>]}
    \cup {[shape |-> "text", text |-> t] : t \in SampleTexts}

responsesObligations(responseData) ==
  IF responseData.shape = "unexpected"
    THEN Placeholder("Unexpected response format", <<"responseData">>)
  ELSE IF responseData.shape = "throws"
    THEN Placeholder("Error processing OpenAI response", <<"responseData">>)
  ELSE IF responseData.text = <<>>
    THEN Placeholder("No output text in response", <<"responseData">>)
  ELSE outputTextObligations(responseData.text)

\* Assistants generation: runResult is the first assistant message's text, or
\* null when the thread has none; no fence stripping and no direct parse.
RunResults ==
  {[present |-> FALSE, text |-> <<>>]}
    \cup {[present |-> TRUE, text |-> t] : t \in SampleTexts}

assistantsObligations(runResult) ==
  LET m == regexMatch(runResult.text)
      q == JSONparse(m.text)
  IN IF ~runResult.present \/ runResult.text = <<>> THEN JArr(<<>>)
     ELSE IF ~m.found THEN Placeholder("Raw AI response (parsing failed)", runResult.text)
     ELSE IF q.ok THEN q.val
     ELSE Placeholder("Error parsing AI response", runResult.text)

\* Chat-completions generation: JSON.parse of the message content, any JSON
\* value accepted; on failure an object (not a list) wrapping the raw text.
chatObligations(analysisContent) ==
  LET p == JSONparse(analysisContent) IN
  IF p.ok THEN p.val
  ELSE [kind |-> "object", raw_response |-> analysisContent]

\* ------------------------------------------------------------- the state
VARIABLES
  variant,       \* which generation of the edge function is deployed
  docs,          \* the documents table: one row per document id
  user_id,       \* the user_id column of the documents table: it is never updated
  pc,            \* position of the current invocation of the serve handler
  batchNo,       \* number of invocations started so far
  snapshot,      \* `documents`: ids of the rows the backlog query returned
  idx,           \* position of the for..of loop in `documents`
  results,       \* `results`: what the loop has pushed so far
  loc,           \* locals of processDocument / analyzeDocument for one document
  response,      \* what the invocation answered
  request,       \* what the latest request was like: its headers, its body, the query's fate
  sent,          \* the update request the latest step sent to the documents table, if any
  providerFiles, \* files this invocation created at the provider and has not deleted
  deleteCalls,   \* file ids this invocation issued a DELETE /files/{id} for
  analyzerCalls, \* (document, file id) pairs analyzeDocument was called with in this invocation
  storeAtStart,  \* the documents table as it was when the invocation started
  prevSelected,  \* ids that were in the snapshot of an earlier invocation
  invocations,   \* overlapping invocations: position and locals of each of them
  upload,        \* the Upload page: its form, the position of handleSubmit, the blobs stored
  normIn,        \* normalisation specification: the provider text
  normOut,       \* normalisation specification: the values computed from it
  viewVariant,   \* which generation of ObligationsPage is mounted
  viewData,      \* the rows the page's query returns
  viewPc,        \* "idle", or how the latest fetchContracts ended
  pendingDocuments,        \* React state of ObligationsPage
  isPolling,
  contracts,
  showConsolidated,
  consolidatedObligations,
  lastUploadDate,
  batched,        \* the build batches the state updates of one fetch into one render
  mounted,        \* ObligationsPage is mounted
  user,           \* useAuth() gives a user
  timers,         \* number of interval timers that are set and not cleared
  effectTimer,    \* `intervalId` of the latest polling effect is not null
  inflight,       \* fetches awaiting the query's answer, by the isPolling their callback closed over
  fetchesStarted, \* number of fetchContracts calls so far
  notices,        \* number of "Processing Complete" toasts so far
  exportVariant,  \* which generation of the export-obligations function is deployed
  exportPc,       \* position of the export: "idle", "invoked", "answered", "done"
  exportReq,      \* the request the export-obligations function was invoked with
  sinkCalls,      \* payloads POSTed to the webhook so far, and its answers
  exportResponse, \* what the export-obligations function answered
  isExporting,    \* React state of ObligationsPage
  documentUrl,
  toast           \* the latest toast of exportObligations

vars ==
  << variant, docs, user_id, pc, batchNo, snapshot, idx, results, loc, response, request, sent,
     providerFiles, deleteCalls, analyzerCalls, storeAtStart, prevSelected,
     invocations, upload,
     normIn, normOut, viewVariant, viewData, viewPc, pendingDocuments, isPolling,
     contracts, showConsolidated, consolidatedObligations, lastUploadDate,
     batched, mounted, user, timers, effectTimer, inflight, fetchesStarted, notices,
     exportVariant, exportPc, exportReq, sinkCalls, exportResponse, isExporting,
     documentUrl, toast >>

\* SQL NULL of the openai_file_id column, and JavaScript's undefined (the `id`
\* of a provider answer that has none). Both are falsy.
NoFile == <<>>
Undefined == <<"undefined">>
Truthy(fileId) == fileId # NoFile /\ fileId # Undefined

\* SQL NULL of the error_message column.
NoMessage == "NULL"

\* A row that has not been inserted yet.
AbsentRow ==
  [status |-> "none", openai_file_id |-> NoFile, analysis_results |-> JNull,
   error_message |-> NoMessage]

\* The row saveDocumentToDatabase inserts: status 'pending', every column the
\* insert does not name is NULL.
PendingRow ==
  [status |-> "pending", openai_file_id |-> NoFile, analysis_results |-> JNull,
   error_message |-> NoMessage]

\* .update(patch).eq('id', id): only the columns the patch names change.
ApplyPatch_replacesRow(row, patch) ==
  [f \in DOMAIN row |-> IF f \in DOMAIN patch THEN patch[f] ELSE AbsentRow[f]]

ApplyPatch(row, patch) ==
  [f \in DOMAIN row |-> IF f \in DOMAIN patch THEN patch[f] ELSE row[f]]

\* The supabase-js client sends the update; it either takes effect on the one
\* row or fails and leaves the table as it was.
StoreUpdate(table, id, patch, outcome) ==
  IF outcome = "ok" THEN [table EXCEPT ![id] = ApplyPatch(table[id], patch)]
  ELSE table

\* The chat generation builds its own client (createClient, part_001:916):
\* update(..).eq(..) returns an object with an execute method that the callers
\* never call, so no request is sent and `error` reads undefined.
SendsUpdates(v) == v # "chat"

NoWrite == [stage |-> "none", id |-> 0, patch |-> [status |-> "none"], outcome |-> "ok", cause |-> "none"]

NoLoc ==
  [doc |-> 0, uploadedFileId |-> NoFile, err |-> "none",
   result |-> [status |-> "none", documentId |-> 0, openai_file_id |-> NoFile, error |-> "none"],
   obligations |-> JNull, runStatus |-> "none"]

\* Two requests the platform serves at the same time, each in its own isolate
\* with its own `documents`, loop position and locals.
Invocations == {1, 2}

NoInvocation == [pc |-> "idle", snapshot |-> <<>>, idx |-> 1, loc |-> NoLoc]

\* The Upload page before any submit: no file selected, nothing stored.
\* `file_path` is the file_path column of the documents table, `blobs` the
\* paths held by the 'contracts' bucket, `invoked` the number of calls of the
\* process-documents function the current submit has made.
NoUpload ==
  [pc |-> "idle", files |-> 0, i |-> 1, allUploadsSuccessful |-> TRUE,
   uploadResult |-> NoFile, blobs |-> {}, file_path |-> [d \in Docs |-> NoFile],
   submits |-> 0, invoked |-> 0]

\* .eq('status', 'pending').is('openai_file_id', null)
IsBacklog_retriesErrors(row) ==
  row.status \in {"pending", "error"} /\ row.openai_file_id = NoFile

IsBacklog(row) == row.status = "pending" /\ row.openai_file_id = NoFile

\* The rows of the backlog, as a sequence in id order (rows are inserted in any
\* order of ids, so every relation of insertion order to result order occurs).
RECURSIVE BacklogFrom(_, _)
BacklogFrom(table, d) ==
  IF d > MaxDocs THEN <<>>
  ELSE IF IsBacklog(table[d]) THEN <<d>> \o BacklogFrom(table, d + 1)
  ELSE BacklogFrom(table, d + 1)

Range(seq) == {seq[i] : i \in DOMAIN seq}

\* ObligationsPage before its first fetch (the useState initial values).
viewVars ==
  << viewVariant, viewData, viewPc, pendingDocuments, isPolling, contracts,
     showConsolidated, consolidatedObligations, lastUploadDate >>

NoUploadDate == <<>>

pollVars ==
  << batched, mounted, user, timers, effectTimer, inflight, fetchesStarted, notices >>

pipelineVars ==
  << variant, docs, user_id, pc, batchNo, snapshot, idx, results, loc, response, request, sent,
     providerFiles, deleteCalls, analyzerCalls, storeAtStart, prevSelected,
     invocations, upload >>

exportVars ==
  << exportVariant, exportPc, exportReq, sinkCalls, exportResponse, isExporting,
     documentUrl, toast >>

NoRequest == [caller |-> "none"]
NoResponse == [status |-> 0]
NoToast == [title |-> "none"]

\* No export was asked for.
ExportIdle ==
  /\ exportVariant = "index"
  /\ exportPc = "idle"
  /\ exportReq = NoRequest
  /\ sinkCalls = <<>>
  /\ exportResponse = NoResponse
  /\ isExporting = FALSE
  /\ documentUrl = NoFile
  /\ toast = NoToast

\* No page is mounted.
PollIdle ==
  /\ batched = TRUE
  /\ mounted = FALSE
  /\ user = TRUE
  /\ timers = 0
  /\ effectTimer = FALSE
  /\ inflight = [c \in BOOLEAN |-> 0]
  /\ fetchesStarted = 0
  /\ notices = 0

ViewUnmounted ==
  /\ viewVariant = "validated"
  /\ viewData = <<>>
  /\ viewPc = "idle"
  /\ pendingDocuments = 0
  /\ isPolling = FALSE
  /\ contracts = <<>>
  /\ showConsolidated = FALSE
  /\ consolidatedObligations = <<>>
  /\ lastUploadDate = NoUploadDate

\* The pipeline before any invocation, with an empty documents table.
PipelineIdle ==
  /\ docs = [d \in Docs |-> AbsentRow]
  /\ user_id = [d \in Docs |-> "u1"]
  /\ batchNo = 0
  /\ snapshot = <<>>
  /\ idx = 1
  /\ results = <<>>
  /\ loc = NoLoc
  /\ response = "none"
  /\ request = "none"
  /\ sent = NoWrite
  /\ providerFiles = {}
  /\ deleteCalls = {}
  /\ analyzerCalls = {}
  /\ storeAtStart = [d \in Docs |-> AbsentRow]
  /\ prevSelected = {}
  /\ invocations = [k \in Invocations |-> NoInvocation]
  /\ upload = NoUpload

\* The users who upload, and who uploads which document: all the same user,
\* or two users in turn. Only the chat generation reads user_id; for the
\* others one table of two users stands for all.
Users == {"u1", "u2"}

OwnerTables(v) ==
  {[d \in Docs |-> IF d % 2 = 1 THEN "u1" ELSE "u2"]}
    \cup (IF v = "chat" THEN {[d \in Docs |-> "u1"]} ELSE {})

Init ==
  /\ variant \in Variants
  /\ docs = [d \in Docs |-> AbsentRow]
  /\ user_id \in OwnerTables(variant)
  /\ pc = "idle"
  /\ batchNo = 0
  /\ snapshot = <<>>
  /\ idx = 1
  /\ results = <<>>
  /\ loc = NoLoc
  /\ response = "none"
  /\ request = "none"
  /\ sent = NoWrite
  /\ providerFiles = {}
  /\ deleteCalls = {}
  /\ analyzerCalls = {}
  /\ storeAtStart = [d \in Docs |-> AbsentRow]
  /\ prevSelected = {}
  /\ invocations = [k \in Invocations |-> NoInvocation]
  /\ upload = NoUpload
  /\ normIn = <<>>
  /\ normOut = [done |-> FALSE]
  /\ ViewUnmounted
  /\ PollIdle
  /\ ExportIdle

ghostNorm == UNCHANGED << user_id, invocations, upload, normIn, normOut, viewVars, pollVars, exportVars >>

\* ---------------------------------------------------------------- enqueue
\* Upload.tsx saveDocumentToDatabase: insert of one row with status 'pending'.
Enqueue(d) ==
  /\ docs[d].status = "none"
  /\ docs' = [docs EXCEPT ![d] = PendingRow]
  /\ UNCHANGED << variant, request, pc, batchNo, snapshot, idx, results, loc, response,
                  sent, providerFiles, deleteCalls, analyzerCalls,
                  storeAtStart, prevSelected >>
  /\ ghostNorm

\* ---------------------------------------------------------- serve handler
CanStart == pc \in {"idle", "done"} /\ batchNo < MaxBatches

\* What every start of an invocation does to the bookkeeping.
StartBookkeeping ==
  /\ batchNo' = batchNo + 1
  /\ storeAtStart' = docs
  /\ prevSelected' = prevSelected \cup Range(snapshot)
  /\ analyzerCalls' = {}
  /\ providerFiles' = {}
  /\ deleteCalls' = {}
  /\ results' = <<>>
  /\ idx' = 1
  /\ loc' = NoLoc

\* What an invocation that processes no document answers. No Authorization
\* header: 401. Chat generation, no userId in the body: 400. The backlog query
\* fails: the handler's catch answers 500. No row found: "ok0" is the early
\* `processed: 0` answer; the chat generation has no such return and answers
\* after its loop over nothing ("ok" with processed: results.length = 0).
earlyResponse_hidesFailure(v, req) ==
  IF req = "noAuthorization" THEN "401"
  ELSE IF req = "noUserId" THEN "400"
  ELSE IF v = "chat" THEN "ok" ELSE "ok0"

earlyResponse(v, req) ==
  IF req = "noAuthorization" THEN "401"
  ELSE IF req = "noUserId" THEN "400"
  ELSE IF req = "queryFails" THEN "500"
  ELSE IF v = "chat" THEN "ok" ELSE "ok0"

\* No Authorization header: 401. Chat generation: no userId in the body: 400.
serve_reject(authHeader, userId) ==
  /\ CanStart
  /\ ~authHeader \/ (variant = "chat" /\ ~userId)
  /\ StartBookkeeping
  /\ snapshot' = <<>>
  /\ request' = IF ~authHeader THEN "noAuthorization" ELSE "noUserId"
  /\ response' = earlyResponse(variant, request')
  /\ pc' = "done"
  /\ UNCHANGED << variant, docs >>
  /\ sent' = NoWrite
  /\ ghostNorm

\* The backlog query fails: the handler's catch answers 500.
serve_queryFails ==
  /\ CanStart
  /\ StartBookkeeping
  /\ snapshot' = <<>>
  /\ request' = "queryFails"
  /\ response' = earlyResponse(variant, request')
  /\ pc' = "done"
  /\ UNCHANGED << variant, docs >>
  /\ sent' = NoWrite
  /\ ghostNorm

\* .filter('user_id', 'eq', userId): only the chat generation has it.
OwnerScope(v, owner, userId) == v = "chat" => owner = userId

\* The backlog query succeeds: the rows it returns are the snapshot the loop
\* iterates. An empty one is answered at once.
serve_fetch ==
  /\ CanStart
  /\ StartBookkeeping
  /\ \E userId \in Users :
       snapshot' = SelectSeq(BacklogFrom(docs, 1),
                             LAMBDA d : OwnerScope(variant, user_id[d], userId))
  /\ request' = "served"
  /\ IF snapshot' = <<>>
       THEN /\ response' = earlyResponse(variant, request')
            /\ pc' = "done"
       ELSE /\ response' = "none"
            /\ pc' = "download"
  /\ UNCHANGED << variant, docs >>
  /\ sent' = NoWrite
  /\ ghostNorm

\* for (const doc of documents) { ...; results.push(result); }: the loop goes on
\* to the next row whatever the result was.
loopNext_breaksOnError(result, i, snap) ==
  [idx |-> i + 1,
   pc |-> IF i + 1 <= Len(snap) /\ result.status # "error" THEN "download" ELSE "respond"]

loopNext(result, i, snap) ==
  [idx |-> i + 1, pc |-> IF i + 1 <= Len(snap) THEN "download" ELSE "respond"]

\* `doc` of the iteration: the row of the snapshot the loop is at.
loopDoc_last(snap, i) == snap[Len(snap)]

loopDoc_first(snap, i) == snap[1]

loopDoc(snap, i) == snap[i]

FinishDoc(result) ==
  /\ loc' = NoLoc
  /\ results' = Append(results, result)
  /\ idx' = loopNext(result, idx, snapshot).idx
  /\ pc' = loopNext(result, idx, snapshot).pc

\* if (result.status === 'processed' && result.openai_file_id)
RunsAnalyzer(result) ==
  result.status = "processed" /\ Truthy(result.openai_file_id)

AfterUploader(result) ==
  IF RunsAnalyzer(result)
    THEN /\ pc' = "inference"
         /\ loc' = [loc EXCEPT !.result = result]
         /\ analyzerCalls' =
              analyzerCalls \cup {[doc |-> result.documentId, fileId |-> result.openai_file_id]}
         /\ UNCHANGED << results, idx >>
    ELSE /\ FinishDoc(result)
         /\ UNCHANGED analyzerCalls

serve_respond ==
  /\ pc = "respond"
  /\ response' = "ok"
  /\ pc' = "done"
  /\ UNCHANGED << variant, request, docs, batchNo, snapshot, idx, results, loc, providerFiles, deleteCalls, analyzerCalls, storeAtStart, prevSelected >>
  /\ sent' = NoWrite
  /\ ghostNorm

\* -------------------------------------------------------- processDocument
\* supabaseAdmin.storage.from('contracts').download(document.file_path)
processDocument_download(ok) ==
  /\ pc = "download"
  /\ loc' = [NoLoc EXCEPT !.doc = loopDoc(snapshot, idx),
                          !.err = IF ok THEN "none" ELSE "download"]
  /\ pc' = IF ok THEN "upload" ELSE "uploaderCatch"
  /\ UNCHANGED << variant, request, docs, batchNo, snapshot, idx, results, response, providerFiles, deleteCalls, analyzerCalls, storeAtStart, prevSelected >>
  /\ sent' = NoWrite
  /\ ghostNorm

\* POST /v1/files. "ok": 200 with an id; "noId": 200 whose body has no id;
\* "rejected": a non-2xx answer, a transport error or an unreadable body.
UploadAnswers == {"ok", "noId", "rejected"}

\* The provider names every file it creates with an id it has not used before.
\* An invocation uploads a document at most once, so the pair of the document
\* and the invocation's number is such an id.
FreshFileId(doc) == << doc, batchNo >>

processDocument_upload(answer) ==
  /\ pc = "upload"
  /\ LET id == FreshFileId(loc.doc) IN
     /\ loc' = [loc EXCEPT
                  !.uploadedFileId = IF answer = "ok" THEN id
                                     ELSE IF answer = "noId" THEN Undefined ELSE @,
                  !.err = IF answer = "rejected" THEN "upload" ELSE @]
     /\ providerFiles' = IF answer = "ok" THEN providerFiles \cup {id} ELSE providerFiles
  /\ pc' = IF answer = "rejected" THEN "uploaderCatch" ELSE "writeProcessing"
  /\ UNCHANGED << variant, request, docs, batchNo, snapshot, idx, results, response, deleteCalls, analyzerCalls, storeAtStart, prevSelected >>
  /\ sent' = NoWrite
  /\ ghostNorm

\* update({ openai_file_id: uploadedFileId, status: 'processing', updated_at })
\* The request body is JSON.stringify of the object, which leaves out a key
\* whose value is undefined.
processingPatch_marksAnalyzed(fileId) ==
  [status |-> "analyzed", openai_file_id |-> fileId]

processingPatch(fileId) ==
  IF fileId = Undefined THEN [status |-> "processing"]
  ELSE [status |-> "processing", openai_file_id |-> fileId]

processedResult(doc, fileId) ==
  [status |-> "processed", documentId |-> doc, openai_file_id |-> fileId, error |-> "none"]

errorResult(doc, err) ==
  [status |-> "error", documentId |-> doc, openai_file_id |-> NoFile, error |-> err]

processDocument_writeProcessing(outcome) ==
  /\ pc = "writeProcessing"
  /\ SendsUpdates(variant) \/ outcome = "ok"
  /\ LET patch == processingPatch(loc.uploadedFileId)
         result == processedResult(loc.doc, loc.uploadedFileId)
     IN /\ IF SendsUpdates(variant)
             THEN /\ sent' = [stage |-> "uploader", id |-> loc.doc, patch |-> patch,
                                   outcome |-> outcome, cause |-> "none"]
                  /\ docs' = StoreUpdate(docs, loc.doc, patch, outcome)
             ELSE /\ sent' = NoWrite
                  /\ UNCHANGED docs
        /\ IF outcome = "ok"
             THEN AfterUploader(result)
             ELSE /\ loc' = [loc EXCEPT !.err = "update"]
                  /\ pc' = "uploaderCatch"
                  /\ UNCHANGED << results, idx, analyzerCalls >>
  /\ UNCHANGED << variant, request, batchNo, snapshot, response, providerFiles, deleteCalls,
                  storeAtStart, prevSelected >>
  /\ ghostNorm

\* The catch block of processDocument.
\* assistants, responses: update({ status: 'error', updated_at }) inside its own
\*   try/catch, the returned error is not read; `outcome` is that update's.
\* chat: cleanupFile(uploadedFileId) when a file was uploaded (`outcome` is the
\*   DELETE's), then update({ status: 'error', error_message }) which is never
\*   sent.
\* if (uploadedFileId) { await cleanupFile(uploadedFileId); }: only the chat
\* generation's catch has it.
CatchCleansUp_always(v) == TRUE

CatchCleansUp(v) == v = "chat"

uploaderErrorPatch(v, err) ==
  IF v = "chat" THEN [status |-> "error", error_message |-> err]
  ELSE [status |-> "error"]

processDocument_catch(outcome) ==
  /\ pc = "uploaderCatch"
  /\ LET patch == uploaderErrorPatch(variant, loc.err)
         result == errorResult(loc.doc, loc.err)
         cleans == CatchCleansUp(variant) /\ Truthy(loc.uploadedFileId)
     IN /\ IF SendsUpdates(variant)
             THEN /\ sent' = [stage |-> "uploader", id |-> loc.doc, patch |-> patch,
                                   outcome |-> outcome, cause |-> loc.err]
                  /\ docs' = StoreUpdate(docs, loc.doc, patch, outcome)
             ELSE /\ sent' = NoWrite
                  /\ UNCHANGED docs
        /\ deleteCalls' = IF cleans THEN deleteCalls \cup {loc.uploadedFileId}
                                    ELSE deleteCalls
        /\ providerFiles' = IF cleans /\ (SendsUpdates(variant) \/ outcome = "ok")
                              THEN providerFiles \ {loc.uploadedFileId}
                              ELSE providerFiles
        /\ FinishDoc(result)
  /\ UNCHANGED << variant, request, batchNo, snapshot, response, analyzerCalls, storeAtStart,
                  prevSelected >>
  /\ ghostNorm

\* -------------------------------------------------------- analyzeDocument
\* Chat generation: what analysisData.choices[0].message.content can be. "bad"
\* is an envelope without it (reading it, or content.substring, throws).
ChatAnswers ==
  {[shape |-> "bad", text |-> <<>>]} \cup {[shape |-> "text", text |-> t] : t \in SampleTexts}

analyzedPatch(obligations) ==
  [status |-> "analyzed", analysis_results |-> obligations]

\* The catch block of analyzeDocument: assistants and responses write
\* { status: 'error', updated_at }, chat { status: 'analysis_error', error_message }.
analyzerErrorPatch(v, err) ==
  IF v = "chat" THEN [status |-> "analysis_error", error_message |-> err]
  ELSE [status |-> "error"]

AnalyzerUnchanged ==
  /\ UNCHANGED << variant, request, docs, batchNo, snapshot, idx, results, response, providerFiles, deleteCalls, analyzerCalls, storeAtStart, prevSelected >>
  /\ sent' = NoWrite

\* The inference request fails: a non-2xx answer or a transport error.
analyzeDocument_inferenceFails ==
  /\ pc = "inference"
  /\ loc' = [loc EXCEPT !.err = "inference"]
  /\ pc' = "analyzerCatch"
  /\ AnalyzerUnchanged
  /\ ghostNorm

\* assistants: POST /v1/threads/runs answered; the run starts as 'queued'.
analyzeDocument_runCreated ==
  /\ pc = "inference"
  /\ variant = "assistants"
  /\ loc' = loc
  /\ pc' = "poll"
  /\ AnalyzerUnchanged
  /\ ghostNorm

\* responses: POST /v1/responses answered; the envelope is normalised.
analyzeDocument_response(responseData) ==
  /\ pc = "inference"
  /\ variant = "responses"
  /\ loc' = [loc EXCEPT !.obligations = responsesObligations(responseData)]
  /\ pc' = "writeAnalyzed"
  /\ AnalyzerUnchanged
  /\ ghostNorm

\* chat: POST /v1/chat/completions answered.
analyzeDocument_completion(answer) ==
  /\ pc = "inference"
  /\ variant = "chat"
  /\ IF answer.shape = "bad"
       THEN /\ loc' = [loc EXCEPT !.err = "envelope"]
            /\ pc' = "analyzerCatch"
       ELSE /\ loc' = [loc EXCEPT !.obligations = chatObligations(answer.text)]
            /\ pc' = "writeAnalyzed"
  /\ AnalyzerUnchanged
  /\ ghostNorm

\* assistants: one turn of while (['queued','in_progress'].includes(runStatus)):
\* wait, then GET the run. "httpError": the GET is not ok. 'completed' goes on
\* to fetch the messages; 'failed', 'cancelled', 'expired' throw; any other
\* status ends the loop with runResult still null.
RunStatuses ==
  {"queued", "in_progress", "completed", "failed", "cancelled", "expired", "requires_action"}

\* while (['queued', 'in_progress'].includes(runStatus)): the only condition
\* of the loop; it counts no attempts and has no timeout.
stillRunning_untilCompleted(runStatus) == runStatus # "completed"

stillRunning(runStatus) == runStatus \in {"queued", "in_progress"}

analyzeDocument_poll(answer) ==
  /\ pc = "poll"
  /\ IF answer = "httpError"
       THEN /\ loc' = [loc EXCEPT !.err = "poll"]
            /\ pc' = "analyzerCatch"
     ELSE IF answer = "completed"
       THEN /\ loc' = [loc EXCEPT !.runStatus = answer]
            /\ pc' = "messages"
     ELSE IF answer \in {"failed", "cancelled", "expired"}
       THEN /\ loc' = [loc EXCEPT !.err = "run", !.runStatus = answer]
            /\ pc' = "analyzerCatch"
     ELSE IF stillRunning(answer)
       THEN /\ loc' = [loc EXCEPT !.runStatus = answer]
            /\ pc' = "poll"
     ELSE /\ loc' = [loc EXCEPT !.runStatus = answer,
                                !.obligations =
                        assistantsObligations([present |-> FALSE, text |-> <<>>])]
          /\ pc' = "writeAnalyzed"
  /\ AnalyzerUnchanged
  /\ ghostNorm

\* assistants: GET /v1/threads/{id}/messages after 'completed'.
analyzeDocument_messagesFail ==
  /\ pc = "messages"
  /\ loc' = [loc EXCEPT !.err = "messages"]
  /\ pc' = "analyzerCatch"
  /\ AnalyzerUnchanged
  /\ ghostNorm

analyzeDocument_messages(runResult) ==
  /\ pc = "messages"
  /\ loc' = [loc EXCEPT !.obligations = assistantsObligations(runResult)]
  /\ pc' = "writeAnalyzed"
  /\ AnalyzerUnchanged
  /\ ghostNorm

\* update({ status: 'analyzed', analysis_results: obligations, updated_at })
analyzeDocument_writeAnalyzed(outcome) ==
  /\ pc = "writeAnalyzed"
  /\ SendsUpdates(variant) \/ outcome = "ok"
  /\ LET patch == analyzedPatch(loc.obligations) IN
     IF SendsUpdates(variant)
       THEN /\ sent' = [stage |-> "analyzer", id |-> loc.doc, patch |-> patch,
                             outcome |-> outcome, cause |-> "none"]
            /\ docs' = StoreUpdate(docs, loc.doc, patch, outcome)
            /\ IF outcome = "ok"
                 THEN FinishDoc(loc.result)
                 ELSE /\ loc' = [loc EXCEPT !.err = "update"]
                      /\ pc' = "analyzerCatch"
                      /\ UNCHANGED << results, idx >>
       ELSE /\ sent' = NoWrite
            /\ UNCHANGED << docs, loc, results, idx >>
            /\ pc' = "cleanup"
  /\ UNCHANGED << variant, request, batchNo, snapshot, response, providerFiles, deleteCalls,
                  analyzerCalls, storeAtStart, prevSelected >>
  /\ ghostNorm

\* The catch block of analyzeDocument; `outcome` is the update's. The returned
\* error is not read (assistants, responses); chat never sends the update and
\* goes on to cleanupFile.
analyzeDocument_catch(outcome) ==
  /\ pc = "analyzerCatch"
  /\ SendsUpdates(variant) \/ outcome = "ok"
  /\ LET patch == analyzerErrorPatch(variant, loc.err) IN
     IF SendsUpdates(variant)
       THEN /\ sent' = [stage |-> "analyzer", id |-> loc.doc, patch |-> patch,
                             outcome |-> outcome, cause |-> loc.err]
            /\ docs' = StoreUpdate(docs, loc.doc, patch, outcome)
            /\ FinishDoc(loc.result)
       ELSE /\ sent' = NoWrite
            /\ UNCHANGED << docs, loc, results, idx >>
            /\ pc' = "cleanup"
  /\ UNCHANGED << variant, request, batchNo, snapshot, response, providerFiles, deleteCalls,
                  analyzerCalls, storeAtStart, prevSelected >>
  /\ ghostNorm

\* chat: cleanupFile(fileId): DELETE /v1/files/{id}; a failure is only logged.
cleanupFile(outcome) ==
  /\ pc = "cleanup"
  /\ deleteCalls' = deleteCalls \cup {loc.result.openai_file_id}
  /\ providerFiles' = IF outcome = "ok"
                        THEN providerFiles \ {loc.result.openai_file_id}
                        ELSE providerFiles
  /\ FinishDoc(loc.result)
  /\ UNCHANGED << variant, request, docs, batchNo, snapshot, response, analyzerCalls, storeAtStart, prevSelected >>
  /\ sent' = NoWrite
  /\ ghostNorm

\* ------------------------------------------------------- the specification
Outcomes == {"ok", "fail"}

Next ==
  \/ \E d \in Docs : Enqueue(d)
  \/ \E a \in BOOLEAN, u \in BOOLEAN : serve_reject(a, u)
  \/ serve_queryFails
  \/ serve_fetch
  \/ \E ok \in BOOLEAN : processDocument_download(ok)
  \/ \E a \in UploadAnswers : processDocument_upload(a)
  \/ \E o \in Outcomes : processDocument_writeProcessing(o)
  \/ \E o \in Outcomes : processDocument_catch(o)
  \/ analyzeDocument_inferenceFails
  \/ analyzeDocument_runCreated
  \/ \E r \in ResponsesEnvelopes : analyzeDocument_response(r)
  \/ \E c \in ChatAnswers : analyzeDocument_completion(c)
  \/ \E s \in RunStatuses \cup {"httpError"} : analyzeDocument_poll(s)
  \/ analyzeDocument_messagesFail
  \/ \E r \in RunResults : analyzeDocument_messages(r)
  \/ \E o \in Outcomes : analyzeDocument_writeAnalyzed(o)
  \/ \E o \in Outcomes : analyzeDocument_catch(o)
  \/ \E o \in Outcomes : cleanupFile(o)
  \/ serve_respond

Spec == Init /\ [][Next]_vars

\* Every request an invocation awaits is answered, and the provider does not
\* report 'queued' or 'in_progress' for ever: an invocation that has started
\* eventually takes a step other than one more turn of the polling loop on a
\* run that is still running.
Returns ==
  \/ \E ok \in BOOLEAN : processDocument_download(ok)
  \/ \E a \in UploadAnswers : processDocument_upload(a)
  \/ \E o \in Outcomes : processDocument_writeProcessing(o)
  \/ \E o \in Outcomes : processDocument_catch(o)
  \/ analyzeDocument_inferenceFails
  \/ analyzeDocument_runCreated
  \/ \E r \in ResponsesEnvelopes : analyzeDocument_response(r)
  \/ \E c \in ChatAnswers : analyzeDocument_completion(c)
  \/ \E s \in (RunStatuses \ {"queued", "in_progress"}) \cup {"httpError"} :
       analyzeDocument_poll(s)
  \/ analyzeDocument_messagesFail
  \/ \E r \in RunResults : analyzeDocument_messages(r)
  \/ \E o \in Outcomes : analyzeDocument_writeAnalyzed(o)
  \/ \E o \in Outcomes : analyzeDocument_catch(o)
  \/ \E o \in Outcomes : cleanupFile(o)
  \/ serve_respond

\* Some documents are pending and one more request can be served: the earlier
\* ones came without an Authorization header and were answered 401.
InitFair ==
  /\ variant \in Variants
  /\ \E S \in SUBSET Docs :
       /\ S # {}
       /\ docs = [d \in Docs |-> IF d \in S THEN PendingRow ELSE AbsentRow]
  /\ user_id \in OwnerTables(variant)
  /\ pc = "done"
  /\ batchNo = MaxBatches - 1
  /\ snapshot = <<>>
  /\ idx = 1
  /\ results = <<>>
  /\ loc = NoLoc
  /\ response = "401"
  /\ request = "noAuthorization"
  /\ sent = NoWrite
  /\ providerFiles = {}
  /\ deleteCalls = {}
  /\ analyzerCalls = {}
  /\ storeAtStart = [d \in Docs |-> AbsentRow]
  /\ prevSelected = {}
  /\ invocations = [k \in Invocations |-> NoInvocation]
  /\ upload = NoUpload
  /\ normIn = <<>>
  /\ normOut = [done |-> FALSE]
  /\ ViewUnmounted
  /\ PollIdle
  /\ ExportIdle

SpecFair == InitFair /\ [][Next]_vars /\ WF_vars(Returns)

\* ----------------------------------- the normalisation on every short text
InitNorm ==
  /\ variant = "responses"
  /\ docs = [d \in Docs |-> AbsentRow]
  /\ user_id = [d \in Docs |-> "u1"]
  /\ pc = "norm"
  /\ batchNo = 0
  /\ snapshot = <<>>
  /\ idx = 1
  /\ results = <<>>
  /\ loc = NoLoc
  /\ response = "none"
  /\ request = "none"
  /\ sent = NoWrite
  /\ providerFiles = {}
  /\ deleteCalls = {}
  /\ analyzerCalls = {}
  /\ storeAtStart = [d \in Docs |-> AbsentRow]
  /\ prevSelected = {}
  /\ invocations = [k \in Invocations |-> NoInvocation]
  /\ upload = NoUpload
  /\ normIn \in TextsUpTo(MaxLen)
  /\ normOut = [done |-> FALSE]
  /\ ViewUnmounted
  /\ PollIdle
  /\ ExportIdle

\* The three generations' normalisation applied to the same provider text.
Normalize ==
  /\ pc = "norm"
  /\ ~normOut.done
  /\ normOut' = [done |-> TRUE,
                 responses |-> responsesObligations([shape |-> "text", text |-> normIn]),
                 assistants |-> assistantsObligations([present |-> TRUE, text |-> normIn]),
                 chat |-> chatObligations(normIn)]
  /\ UNCHANGED << pipelineVars, normIn, viewVars, pollVars, exportVars >>

NextNorm == Normalize

SpecNorm == InitNorm /\ [][NextNorm]_vars

\* ------------------------------------------------ the obligations page
\* Two generations of ObligationsPage.fetchContracts build the consolidated
\* register:
\*   "windowed"   src/unnamed/part_005 lines 298-410
\*   "validated"  src/unnamed/part_006 lines 83-279
ViewVariants == {"windowed", "validated"}

\* dueDate of an obligation: absent or null, a string new Date() cannot read,
\* or one of two dates.
NoDate == "none"
DateOrder == << "2024-01-01", "2024-03-01" >>
DueDates == {NoDate, "invalid"} \cup Range(DateOrder)

\* An obligation as the prompt asks for it, and (JObj) an array item that has
\* no `obligation` property.
Obligation(d) ==
  [kind |-> "object", obligation |-> "o", section |-> "4.1", dueDate |-> d]

\* updated_at of a row, in minutes.
Times == {0, 10}

\* Documents updated less than this many minutes apart count as one batch.
WindowMinutes == 10

RECURSIVE SeqsOfLen(_, _)
SeqsOfLen(S, n) ==
  IF n = 0 THEN {<<>>} ELSE {Append(q, x) : q \in SeqsOfLen(S, n - 1), x \in S}

SeqsUpTo(S, n) == UNION {SeqsOfLen(S, k) : k \in 0..n}

ItemCount(v) == IF v.kind = "array" THEN Len(v.items) ELSE 0

\* What a row can hold besides its id: a row that is not 'analyzed' has no
\* analysis_results; an 'analyzed' row holds a non-null value, an array or (the
\* Responses generation stores it) a single object.
RowsOf(items, times, budget) ==
  {[status |-> st, analysis_results |-> JNull, updated_at |-> t] :
      st \in {"pending", "processing", "error", "analysis_error"}, t \in times}
    \cup {[status |-> "analyzed", analysis_results |-> JObj, updated_at |-> t] : t \in times}
    \cup {[status |-> "analyzed", analysis_results |-> JArr(q), updated_at |-> t] :
            q \in SeqsUpTo(items, budget), t \in times}

AnalyzedRowsOf(items, times, budget) ==
  {r \in RowsOf(items, times, budget) :
     r.status = "analyzed" /\ r.analysis_results.kind = "array"}

\* Tables of exactly n rows drawn from Rows(budget) that hold at most `budget`
\* items together.
RECURSIVE StatusTables(_, _), SortTables(_, _)
StatusTables(n, budget) ==
  IF n = 0 THEN {<<>>}
  ELSE UNION {{<<r>> \o rest : rest \in StatusTables(n - 1, budget - ItemCount(r.analysis_results))} :
                r \in RowsOf({Obligation(NoDate)}, Times, budget)}

SortTables(n, budget) ==
  IF n = 0 THEN {<<>>}
  ELSE UNION {{<<r>> \o rest : rest \in SortTables(n - 1, budget - ItemCount(r.analysis_results))} :
                r \in AnalyzedRowsOf({Obligation(d) : d \in DueDates} \cup {JObj}, {0}, budget)}

\* The rows get their id and filename: the position in the table.
WithIds(t) ==
  [i \in 1..Len(t) |->
     [id |-> i, filename |-> <<"file", i>>, status |-> t[i].status,
      analysis_results |-> t[i].analysis_results, updated_at |-> t[i].updated_at]]

\* .order('updated_at', { ascending: false }) of the windowed generation.
OrderedByUpdate(t) ==
  \A i \in 1..Len(t) : \A j \in i..Len(t) : t[i].updated_at >= t[j].updated_at

\* The tables the query can return: tables over every status and time of
\* update (obligations without dates), and tables of analyzed documents over
\* every kind of item (every kind of date, and an item without `obligation`).
ViewTables(v) ==
  {WithIds(t) : t \in {u \in UNION {StatusTables(n, MaxObls) \cup SortTables(n, MaxObls) : n \in 0..MaxDocs} :
                          v = "windowed" => OrderedByUpdate(u)}}

\* doc.status === 'pending' || doc.status === 'processing'
isPendingWork_countsErrors(status) ==
  status \in {"pending", "processing", "error", "analysis_error"}

isPendingWork(status) == status \in {"pending", "processing"}

pendingCount(data) == Cardinality({i \in 1..Len(data) : isPendingWork(data[i].status)})

\* status === 'analyzed' && analysis_results && Array.isArray(analysis_results)
\* (windowed: one filter; validated: analyzedDocs, then validAnalyzedDocs).
validAnalyzedDocs(data) ==
  SelectSeq(data, LAMBDA doc : doc.status = "analyzed" /\ doc.analysis_results.kind = "array")

\* !isNaN(new Date(dateString).getTime()), false for a missing dateString.
isValidDate(dateString) == dateString \in Range(DateOrder)

\* new Date(d).getTime() of a valid date, as its rank.
getTime(d) == CHOOSE i \in 1..Len(DateOrder) : DateOrder[i] = d

dueDateOf(o) == IF "dueDate" \in DOMAIN o THEN o.dueDate ELSE NoDate

\* { ...obligation, documentId: contract.id, documentName: contract.filename }
Tagged(o, contract) ==
  [f \in DOMAIN o \cup {"documentId", "documentName"} |->
     IF f = "documentId" THEN contract.id
     ELSE IF f = "documentName" THEN contract.filename
     ELSE o[f]]

\* validated: the entry pushed for an item that has a string `obligation`.
Validated(o, contract) ==
  [f \in DOMAIN o \cup {"documentId", "documentName", "section", "dueDate"} |->
     IF f = "documentId" THEN contract.id
     ELSE IF f = "documentName" THEN contract.filename
     ELSE IF f = "section" THEN (IF "section" \in DOMAIN o THEN o.section ELSE "N/A")
     ELSE IF f = "dueDate" THEN (IF isValidDate(dueDateOf(o)) THEN o.dueDate ELSE NoDate)
     ELSE o[f]]

\* validated skips an item that is no object or has no string `obligation`.
KeepsItem(v, o) == v = "windowed" \/ (o.kind = "object" /\ "obligation" \in DOMAIN o)

\* contract.analysis_results.forEach(...) from item k on.
RECURSIVE mergeContract(_, _, _), allObligations(_, _, _)
mergeContract(v, contract, k) ==
  LET items == contract.analysis_results.items IN
  IF k > Len(items) THEN <<>>
  ELSE IF ~KeepsItem(v, items[k]) THEN mergeContract(v, contract, k + 1)
  ELSE << IF v = "windowed" THEN Tagged(items[k], contract)
                            ELSE Validated(items[k], contract) >>
         \o mergeContract(v, contract, k + 1)

\* typedContracts.forEach(...) from contract i on.
allObligations(v, typed, i) ==
  IF i > Len(typed) THEN <<>>
  ELSE mergeContract(v, typed[i], 1) \o allObligations(v, typed, i + 1)

\* The comparator passed to sort, as the sign of what it returns. A NaN
\* (windowed: the difference of two times one of which is NaN) counts as 0.
compare_missingFirst(v, a, b) == "pos"

compare(v, a, b) ==
  LET da == dueDateOf(a)
      db == dueDateOf(b)
      na == IF v = "windowed" THEN da = NoDate ELSE ~isValidDate(da)
      nb == IF v = "windowed" THEN db = NoDate ELSE ~isValidDate(db)
  IN IF na /\ nb THEN "zero"
     ELSE IF na THEN "pos"
     ELSE IF nb THEN "neg"
     ELSE IF ~isValidDate(da) \/ ~isValidDate(db) THEN "zero"
     ELSE IF getTime(da) < getTime(db) THEN "neg"
     ELSE IF getTime(da) > getTime(db) THEN "pos"
     ELSE "zero"

\* Array.prototype.sort is stable. With a consistent comparator the result is
\* the one stable ordering, computed here by insertion: x goes right after the
\* last element that does not compare greater than x.
RECURSIVE insertAt(_, _, _, _), sortPrefix(_, _, _), Perms(_)
insertAt(v, sorted, x, k) ==
  IF k = 0 \/ compare(v, sorted[k], x) # "pos"
    THEN SubSeq(sorted, 1, k) \o <<x>> \o SubSeq(sorted, k + 1, Len(sorted))
    ELSE insertAt(v, sorted, x, k - 1)

sortPrefix(v, arr, n) ==
  IF n = 0 THEN <<>>
  ELSE LET before == sortPrefix(v, arr, n - 1) IN insertAt(v, before, arr[n], Len(before))

\* A consistent comparison function (ECMAScript, Array.prototype.sort) on the
\* values of arr.
Consistent(v, arr) ==
  LET S == Range(arr) IN
  /\ \A a \in S : compare(v, a, a) = "zero"
  /\ \A a, b \in S :
       /\ compare(v, a, b) = "zero" <=> compare(v, b, a) = "zero"
       /\ compare(v, a, b) = "neg" <=> compare(v, b, a) = "pos"
  /\ \A a, b, c \in S :
       /\ (compare(v, a, b) = "zero" /\ compare(v, b, c) = "zero") => compare(v, a, c) = "zero"
       /\ (compare(v, a, b) = "neg" /\ compare(v, b, c) = "neg") => compare(v, a, c) = "neg"
       /\ (compare(v, a, b) = "zero" /\ compare(v, b, c) = "neg") => compare(v, a, c) = "neg"
       /\ (compare(v, a, b) = "neg" /\ compare(v, b, c) = "zero") => compare(v, a, c) = "neg"

Perms(arr) ==
  IF arr = <<>> THEN {<<>>}
  ELSE UNION {{<<arr[i]>> \o q :
                 q \in Perms(SubSeq(arr, 1, i - 1) \o SubSeq(arr, i + 1, Len(arr)))} :
              i \in 1..Len(arr)}

\* The orders sort can leave arr in: the stable one, or, when the comparator
\* is not consistent, an order the engine is free to choose.
arraySort(v, arr) ==
  IF Consistent(v, arr) THEN {sortPrefix(v, arr, Len(arr))} ELSE Perms(arr)

\* windowed: more than one document was updated less than ten minutes from
\* the first (most recently updated) one.
multipleRecentUploads(typed) ==
  LET recentTime == typed[1].updated_at
      apart(t) == IF t >= recentTime THEN t - recentTime ELSE recentTime - t
  IN Cardinality({i \in 1..Len(typed) : apart(typed[i].updated_at) < WindowMinutes}) > 1

\* fetchContracts, the query answered with an error: the catch empties the
\* list of contracts and leaves the rest as it was.
fetchContracts_fails ==
  /\ viewPc = "idle"
  /\ viewPc' = "failed"
  /\ contracts' = <<>>
  /\ UNCHANGED << viewVariant, viewData, pendingDocuments, isPolling, showConsolidated,
                  consolidatedObligations, lastUploadDate >>
  /\ UNCHANGED << pipelineVars, normIn, normOut, pollVars, exportVars >>

\* The polling decision of fetchContracts: closure is the isPolling the
\* callback closed over, current the value the update is applied to.
pollingDecision(n, closure, current) ==
  IF n > 0 /\ ~closure THEN TRUE
  ELSE IF n = 0 THEN FALSE ELSE current

\* What fetchContracts sets, besides isPolling, when the query answered with
\* the rows of data.
fetchContracts_setState(data) ==
     LET n == pendingCount(data)
         typed == validAnalyzedDocs(data)
         all == allObligations(viewVariant, typed, 1)
     IN /\ pendingDocuments' = n
        /\ contracts' = typed
        /\ IF Len(typed) > 1
             THEN \E sorted \in arraySort(viewVariant, all) :
                    IF viewVariant = "windowed"
                      THEN /\ lastUploadDate' = << typed[1].updated_at >>
                           /\ showConsolidated' = multipleRecentUploads(typed)
                           /\ consolidatedObligations' = sorted
                      ELSE /\ showConsolidated' = (Len(sorted) > 0)
                           /\ consolidatedObligations' =
                                IF Len(sorted) > 0 THEN sorted ELSE consolidatedObligations
                           /\ UNCHANGED lastUploadDate
             ELSE /\ showConsolidated' = FALSE
                  /\ UNCHANGED << consolidatedObligations, lastUploadDate >>

\* fetchContracts, the query answered with the rows of viewData.
fetchContracts ==
  /\ viewPc = "idle"
  /\ viewPc' = "shown"
  /\ isPolling' = pollingDecision(pendingCount(viewData), isPolling, isPolling)
  /\ fetchContracts_setState(viewData)
  /\ UNCHANGED << viewVariant, viewData >>
  /\ UNCHANGED << pipelineVars, normIn, normOut, pollVars, exportVars >>

InitView ==
  /\ variant = "assistants"
  /\ pc = "view"
  /\ PipelineIdle
  /\ normIn = <<>>
  /\ normOut = [done |-> FALSE]
  /\ viewVariant \in ViewVariants
  /\ viewData \in ViewTables(viewVariant)
  /\ viewPc = "idle"
  /\ pendingDocuments = 0
  /\ isPolling = FALSE
  /\ contracts = <<>>
  /\ showConsolidated = FALSE
  /\ consolidatedObligations = <<>>
  /\ lastUploadDate = NoUploadDate
  /\ PollIdle
  /\ ExportIdle

NextView ==
  \/ fetchContracts
  \/ fetchContracts_fails

SpecView == InitView /\ [][NextView]_vars

\* ------------------------------------------- polling of the obligations page
\* A row of a table the page polls: its status, and no obligation.
PollRows ==
  {[status |-> st, analysis_results |-> JNull, updated_at |-> 0] :
     st \in {"pending", "error"}}
    \cup {[status |-> "analyzed", analysis_results |-> JArr(<<>>), updated_at |-> 0]}

PollTables == {WithIds(t) : t \in SeqsUpTo(PollRows, MaxDocs)}

\* The effects that depend on fetchContracts, run after a render in which
\* isPolling or user changed (the callback's identity changes with either). s
\* holds isPolling, user, timers, effectTimer, inflight and fetchesStarted.
\* The polling effect's cleanup clears the interval it set, then the effect
\* sets a new one if isPolling and user; the initial-fetch effect calls
\* fetchContracts if user.
clearsInterval_never(held) == FALSE

clearsInterval(held) == held

runEffects(s, p, u) ==
  IF p = s.isPolling /\ u = s.user THEN s
  ELSE [isPolling |-> p,
        user |-> u,
        timers |-> (IF clearsInterval(s.effectTimer) THEN s.timers - 1 ELSE s.timers)
                    + (IF p /\ u THEN 1 ELSE 0),
        effectTimer |-> (p /\ u),
        inflight |-> IF u THEN [s.inflight EXCEPT ![p] = @ + 1] ELSE s.inflight,
        fetchesStarted |-> IF u THEN s.fetchesStarted + 1 ELSE s.fetchesStarted]

\* The completion-notice effect after a render with pendingDocuments = n and
\* isPolling = p, one of which changed: the toast, and setIsPolling(false).
noticeFires(n, p, changed) == changed /\ n = 0 /\ p

effectState ==
  [isPolling |-> isPolling, user |-> user, timers |-> timers,
   effectTimer |-> effectTimer, inflight |-> inflight, fetchesStarted |-> fetchesStarted]

setEffectState(s) ==
  /\ isPolling' = s.isPolling
  /\ user' = s.user
  /\ timers' = s.timers
  /\ effectTimer' = s.effectTimer
  /\ inflight' = s.inflight
  /\ fetchesStarted' = s.fetchesStarted

\* The page is mounted with a signed-in user: the first render's effects call
\* fetchContracts; isPolling is false, so no interval is set.
mount ==
  /\ ~mounted
  /\ viewPc = "idle"
  /\ user
  /\ mounted' = TRUE
  /\ inflight' = [inflight EXCEPT ![isPolling] = @ + 1]
  /\ fetchesStarted' = fetchesStarted + 1
  /\ UNCHANGED << viewVars, batched, user, timers, effectTimer, notices >>
  /\ UNCHANGED << pipelineVars, normIn, normOut, exportVars >>

\* The interval fires: its callback calls the fetchContracts of the render
\* that set it, where isPolling was true.
interval_fires ==
  /\ timers > 0
  /\ fetchesStarted < MaxFetches
  /\ inflight' = [inflight EXCEPT ![TRUE] = @ + 1]
  /\ fetchesStarted' = fetchesStarted + 1
  /\ UNCHANGED << viewVars, batched, mounted, user, timers, effectTimer, notices >>
  /\ UNCHANGED << pipelineVars, normIn, normOut, exportVars >>

\* "Try Again" / "Refresh": onClick={fetchContracts}.
refresh ==
  /\ mounted
  /\ user
  /\ fetchesStarted < MaxFetches
  /\ inflight' = [inflight EXCEPT ![isPolling] = @ + 1]
  /\ fetchesStarted' = fetchesStarted + 1
  /\ UNCHANGED << viewVars, batched, mounted, user, timers, effectTimer, notices >>
  /\ UNCHANGED << pipelineVars, normIn, normOut, exportVars >>

\* A fetch of the mounted page is answered with rows. In a build that does not
\* batch, setPendingDocuments is rendered, and its effects run, before the
\* polling decision is applied; in a build that batches, all updates of the
\* fetch are rendered together.
fetchContracts_answered ==
  \E c \in BOOLEAN, data \in PollTables :
    /\ mounted
    /\ inflight[c] > 0
    /\ LET n == pendingCount(data)
           s0 == [effectState EXCEPT !.inflight[c] = @ - 1]
           early == ~batched /\ noticeFires(n, isPolling, n # pendingDocuments)
           s1 == IF early THEN runEffects(s0, FALSE, user) ELSE s0
           p2 == pollingDecision(n, c, s1.isPolling)
           s2 == runEffects(s1, p2, user)
           changed == IF batched THEN n # pendingDocuments \/ p2 # isPolling
                                 ELSE p2 # s1.isPolling
           late == noticeFires(n, p2, changed)
           s3 == IF late THEN runEffects(s2, FALSE, user) ELSE s2
       IN /\ s3.fetchesStarted <= MaxFetches
          /\ setEffectState(s3)
          /\ notices' = notices + (IF early THEN 1 ELSE 0) + (IF late THEN 1 ELSE 0)
    /\ viewData' = data
    /\ viewPc' = "shown"
    /\ fetchContracts_setState(data)
    /\ UNCHANGED << viewVariant, batched, mounted >>
    /\ UNCHANGED << pipelineVars, normIn, normOut, exportVars >>

\* A fetch of the mounted page is answered with an error.
fetchContracts_rejected ==
  \E c \in BOOLEAN :
    /\ mounted
    /\ inflight[c] > 0
    /\ inflight' = [inflight EXCEPT ![c] = @ - 1]
    /\ viewPc' = "failed"
    /\ contracts' = <<>>
    /\ UNCHANGED << viewVariant, viewData, pendingDocuments, isPolling, showConsolidated,
                    consolidatedObligations, lastUploadDate >>
    /\ UNCHANGED << batched, mounted, user, timers, effectTimer, fetchesStarted, notices >>
    /\ UNCHANGED << pipelineVars, normIn, normOut, exportVars >>

\* A fetch is answered after the page was unmounted: its state updates are
\* dropped.
fetchContracts_afterUnmount ==
  \E c \in BOOLEAN :
    /\ ~mounted
    /\ inflight[c] > 0
    /\ inflight' = [inflight EXCEPT ![c] = @ - 1]
    /\ UNCHANGED << viewVars, batched, mounted, user, timers, effectTimer,
                    fetchesStarted, notices >>
    /\ UNCHANGED << pipelineVars, normIn, normOut, exportVars >>

\* The user signs out while the page is mounted: the effects run again with
\* user = null.
signOut ==
  /\ mounted
  /\ user
  /\ setEffectState(runEffects(effectState, isPolling, FALSE))
  /\ UNCHANGED << viewVariant, viewData, viewPc, pendingDocuments, contracts,
                  showConsolidated, consolidatedObligations, lastUploadDate >>
  /\ UNCHANGED << batched, mounted, notices >>
  /\ UNCHANGED << pipelineVars, normIn, normOut, exportVars >>

\* The page is unmounted: the cleanup of the polling effect runs.
unmount ==
  /\ mounted
  /\ mounted' = FALSE
  /\ viewPc' = "unmounted"
  /\ timers' = IF clearsInterval(effectTimer) THEN timers - 1 ELSE timers
  /\ effectTimer' = FALSE
  /\ UNCHANGED << viewVariant, viewData, pendingDocuments, isPolling, contracts,
                  showConsolidated, consolidatedObligations, lastUploadDate >>
  /\ UNCHANGED << batched, user, inflight, fetchesStarted, notices >>
  /\ UNCHANGED << pipelineVars, normIn, normOut, exportVars >>

InitPoll ==
  /\ variant = "assistants"
  /\ pc = "view"
  /\ PipelineIdle
  /\ normIn = <<>>
  /\ normOut = [done |-> FALSE]
  /\ viewVariant \in ViewVariants
  /\ viewData = <<>>
  /\ viewPc = "idle"
  /\ pendingDocuments = 0
  /\ isPolling = FALSE
  /\ contracts = <<>>
  /\ showConsolidated = FALSE
  /\ consolidatedObligations = <<>>
  /\ lastUploadDate = NoUploadDate
  /\ batched \in BOOLEAN
  /\ mounted = FALSE
  /\ user = TRUE
  /\ timers = 0
  /\ effectTimer = FALSE
  /\ inflight = [c \in BOOLEAN |-> 0]
  /\ fetchesStarted = 0
  /\ notices = 0
  /\ ExportIdle

NextPoll ==
  \/ mount
  \/ interval_fires
  \/ refresh
  \/ fetchContracts_answered
  \/ fetchContracts_rejected
  \/ fetchContracts_afterUnmount
  \/ signOut
  \/ unmount

SpecPoll == InitPoll /\ [][NextPoll]_vars

\* ------------------------------------------------------------- the export
\* Two generations of the export-obligations function are in the sources:
\* src/unnamed/part_000 and src/supabase/functions/export-obligations/index.ts.
ExportVariants == {"part_000", "index"}

\* A property that is absent from a JSON object.
JMissing == [kind |-> "undefined"]

Urls == {<< "url", 1 >>, << "url", 2 >>}

\* a || b
orElse(a, b) == IF Truthy(a) THEN a ELSE b

\* What the webhook answers: ok with a JSON object that may hold documentUrl
\* and url, or not ok with a status and a text.
SinkAnswers ==
  {[ok |-> TRUE, documentUrl |-> x, url |-> y] :
     x \in Urls \cup {Undefined}, y \in Urls \cup {Undefined}}
    \cup {[ok |-> FALSE, status |-> st, text |-> << "text", t >>] :
            st \in {"429", "500"}, t \in {"quota exceeded", ""}}

\* What the profiles query answers.
ProfileAnswers ==
  {[ok |-> TRUE, full_name |-> << "name", "Ann" >>],
   [ok |-> TRUE, full_name |-> NoFile],
   [ok |-> FALSE, message |-> << "no rows" >>]}

\* The lists the page can hold as consolidatedObligations.
ExportLists ==
  SeqsUpTo({Tagged(Obligation(NoDate), [id |-> 1, filename |-> << "file", 1 >>])}, MaxObls)

\* The bodies any caller can POST to the function.
ExportBodies ==
  {[obligations |-> o, userId |-> u] :
     o \in {JMissing, JObj, JArr(<<>>), JArr(<< Obligation(NoDate) >>)},
     u \in {<< "user", 1 >>, Undefined}}

fnAnswer(status, success, url, error) ==
  [status |-> status, success |-> success, documentUrl |-> url, error |-> error]

\* The request validation of the handler: the answer it gives before any
\* call, or NoResponse if the request passes.
validation(v, req) ==
  IF v = "part_000"
    THEN IF req.obligations.kind \in {"undefined", "null"}
              \/ req.obligations.kind # "array" \/ ~Truthy(req.userId)
           THEN fnAnswer("400", FALSE, Undefined, << "Invalid request parameters" >>)
           ELSE NoResponse
    ELSE IF ~Truthy(req.userId)
           THEN fnAnswer("400", FALSE, Undefined, << "Missing userId" >>)
           ELSE NoResponse

\* The answer to a failed profiles query.
profileFailure(v, profile) ==
  IF v = "part_000"
    THEN fnAnswer("400", FALSE, Undefined,
                  << "Failed to fetch user profile: " >> \o profile.message)
    ELSE fnAnswer("500", FALSE, Undefined,
                  << "Error fetching user profile: " >> \o profile.message)

\* index.ts reads obligations.length before the POST: a TypeError when
\* obligations is absent.
lengthThrows(v, req) == v = "index" /\ req.obligations.kind \in {"undefined", "null"}

webhookPayload(v, req, profile) ==
  [full_name |-> orElse(profile.full_name,
                        IF v = "part_000" THEN << "Anonymous User" >> ELSE << "User" >>),
   content |-> req.obligations]

\* The answer after the webhook answered.
afterWebhook(v, sink) ==
  IF ~sink.ok
    THEN IF v = "part_000"
           THEN fnAnswer("400", FALSE, Undefined,
                         << "Webhook responded with ", sink.status, ": " >> \o sink.text)
           ELSE fnAnswer("500", FALSE, Undefined,
                         << "Webhook error (", sink.status, "): " >> \o sink.text)
    ELSE fnAnswer("200", TRUE,
                  IF v = "part_000" THEN orElse(sink.documentUrl, sink.url)
                  ELSE orElse(orElse(sink.documentUrl, sink.url), NoFile),
                  Undefined)

\* The page's exportObligations when there is no user or nothing to export:
\* it returns at once.
exportObligations_returns ==
  /\ exportPc \in {"idle", "returned", "done"}
  /\ ~user \/ Len(consolidatedObligations) = 0
  /\ exportPc' = "returned"
  /\ UNCHANGED << exportVariant, exportReq, sinkCalls, exportResponse, isExporting,
                  documentUrl, toast >>
  /\ UNCHANGED << pipelineVars, normIn, normOut, viewVars, pollVars >>

\* exportObligations up to the await of functions.invoke.
exportObligations_invoke ==
  /\ exportPc \in {"idle", "returned", "done"}
  /\ user
  /\ Len(consolidatedObligations) # 0
  /\ Len(sinkCalls) < MaxExports
  /\ isExporting' = TRUE
  /\ documentUrl' = NoFile
  /\ exportReq' = [caller |-> "page", obligations |-> JArr(consolidatedObligations),
                   userId |-> << "user", 1 >>]
  /\ exportPc' = "invoked"
  /\ UNCHANGED << exportVariant, sinkCalls, exportResponse, toast >>
  /\ UNCHANGED << pipelineVars, normIn, normOut, viewVars, pollVars >>

\* Another caller POSTs a body to the function.
export_request ==
  /\ exportPc \in {"idle", "returned", "done"}
  /\ Len(sinkCalls) < MaxExports
  /\ \E body \in ExportBodies :
       exportReq' = [caller |-> "direct", obligations |-> body.obligations,
                     userId |-> body.userId]
  /\ exportPc' = "invoked"
  /\ UNCHANGED << exportVariant, sinkCalls, exportResponse, isExporting, documentUrl, toast >>
  /\ UNCHANGED << pipelineVars, normIn, normOut, viewVars, pollVars >>

\* The serve handler of export-obligations, for what the profiles query and
\* the webhook answer.
export_serve ==
  /\ exportPc = "invoked"
  /\ \E profile \in ProfileAnswers, sink \in SinkAnswers :
       LET rejected == validation(exportVariant, exportReq) IN
       IF rejected # NoResponse
         THEN /\ exportResponse' = rejected
              /\ UNCHANGED sinkCalls
       ELSE IF ~profile.ok
         THEN /\ exportResponse' = profileFailure(exportVariant, profile)
              /\ UNCHANGED sinkCalls
       ELSE IF lengthThrows(exportVariant, exportReq)
         THEN /\ exportResponse' =
                   fnAnswer("500", FALSE, Undefined, << "TypeError: obligations is undefined" >>)
              /\ UNCHANGED sinkCalls
       ELSE /\ sinkCalls' = Append(sinkCalls,
                     [payload |-> webhookPayload(exportVariant, exportReq, profile),
                      answer |-> sink])
            /\ exportResponse' = afterWebhook(exportVariant, sink)
  /\ exportPc' = "answered"
  /\ UNCHANGED << exportVariant, exportReq, isExporting, documentUrl, toast >>
  /\ UNCHANGED << pipelineVars, normIn, normOut, viewVars, pollVars >>

\* functions.invoke: a status outside 2xx gives { data: null, error }.
invokeError(resp) ==
  IF resp.status = "200" THEN Undefined
  ELSE << "Edge Function returned a non-2xx status code" >>

\* The toast exportObligations shows for an answer.
exportToast(resp) ==
  IF Truthy(invokeError(resp))
    THEN [title |-> "Export failed",
          description |-> << "Error exporting obligations: " >> \o invokeError(resp)]
  ELSE IF resp.success /\ Truthy(resp.documentUrl)
    THEN [title |-> "Export successful", description |-> << "exported" >>]
  ELSE [title |-> "Export failed",
        description |-> << "Export failed: No document URL returned" >>]

\* exportObligations after the await.
exportObligations_answer ==
  /\ exportPc = "answered"
  /\ exportReq.caller = "page"
  /\ toast' = exportToast(exportResponse)
  /\ documentUrl' = IF toast'.title = "Export successful"
                      THEN exportResponse.documentUrl ELSE documentUrl
  /\ isExporting' = FALSE
  /\ exportPc' = "done"
  /\ UNCHANGED << exportVariant, exportReq, sinkCalls, exportResponse >>
  /\ UNCHANGED << pipelineVars, normIn, normOut, viewVars, pollVars >>

\* The other caller has its answer.
export_answer ==
  /\ exportPc = "answered"
  /\ exportReq.caller = "direct"
  /\ exportPc' = "done"
  /\ UNCHANGED << exportVariant, exportReq, sinkCalls, exportResponse, isExporting,
                  documentUrl, toast >>
  /\ UNCHANGED << pipelineVars, normIn, normOut, viewVars, pollVars >>

InitExport ==
  /\ variant = "assistants"
  /\ pc = "view"
  /\ PipelineIdle
  /\ normIn = <<>>
  /\ normOut = [done |-> FALSE]
  /\ viewVariant = "validated"
  /\ viewData = <<>>
  /\ viewPc = "shown"
  /\ pendingDocuments = 0
  /\ isPolling = FALSE
  /\ contracts = <<>>
  /\ showConsolidated = FALSE
  /\ consolidatedObligations \in ExportLists
  /\ lastUploadDate = NoUploadDate
  /\ batched = TRUE
  /\ mounted = TRUE
  /\ user \in BOOLEAN
  /\ timers = 0
  /\ effectTimer = FALSE
  /\ inflight = [c \in BOOLEAN |-> 0]
  /\ fetchesStarted = 0
  /\ notices = 0
  /\ exportVariant \in ExportVariants
  /\ exportPc = "idle"
  /\ exportReq = NoRequest
  /\ sinkCalls = <<>>
  /\ exportResponse = NoResponse
  /\ isExporting = FALSE
  /\ documentUrl = NoFile
  /\ toast = NoToast

NextExport ==
  \/ exportObligations_returns
  \/ exportObligations_invoke
  \/ export_request
  \/ export_serve
  \/ exportObligations_answer
  \/ export_answer

SpecExport == InitExport /\ [][NextExport]_vars

\* ------------------------------------- two invocations at the same time
\* process-documents/index.ts served twice at once over one documents table.
\* Each invocation runs the handler of the pipeline above on its own locals;
\* every step is one awaited request, and the steps of the two interleave
\* freely. Only the table is shared: every write is an update by id with no
\* condition on the row's current status.
overlapUnchanged ==
  UNCHANGED << variant, request, user_id, pc, batchNo, snapshot, idx, results, loc, response,
               sent, providerFiles, deleteCalls, analyzerCalls, storeAtStart,
               prevSelected, upload, normIn, normOut, viewVars, pollVars, exportVars >>

\* results.push(result) and the next turn of the for..of loop.
overlap_next(inv, result) ==
  [inv EXCEPT !.idx = loopNext(result, inv.idx, inv.snapshot).idx,
              !.pc = loopNext(result, inv.idx, inv.snapshot).pc,
              !.loc = NoLoc]

\* The backlog query of the handler; no row found answers at once.
overlap_fetch(k) ==
  /\ invocations[k].pc = "idle"
  /\ LET snap == BacklogFrom(docs, 1) IN
     invocations' = [invocations EXCEPT ![k] =
                       [NoInvocation EXCEPT !.snapshot = snap,
                                            !.pc = IF snap = <<>> THEN "done" ELSE "download"]]
  /\ UNCHANGED docs
  /\ overlapUnchanged

\* supabaseAdmin.storage.from('contracts').download(document.file_path)
overlap_download(k, ok) ==
  /\ invocations[k].pc = "download"
  /\ invocations' = [invocations EXCEPT
       ![k].loc = [NoLoc EXCEPT !.doc = loopDoc(invocations[k].snapshot, invocations[k].idx),
                                !.err = IF ok THEN "none" ELSE "download"],
       ![k].pc = IF ok THEN "upload" ELSE "uploaderCatch"]
  /\ UNCHANGED docs
  /\ overlapUnchanged

\* POST /v1/files: the provider gives each upload an id of its own.
overlap_upload(k, answer) ==
  /\ invocations[k].pc = "upload"
  /\ invocations' = [invocations EXCEPT
       ![k].loc.uploadedFileId = IF answer = "ok" THEN << invocations[k].loc.doc, k >>
                                 ELSE IF answer = "noId" THEN Undefined ELSE @,
       ![k].loc.err = IF answer = "rejected" THEN "upload" ELSE @,
       ![k].pc = IF answer = "rejected" THEN "uploaderCatch" ELSE "writeProcessing"]
  /\ UNCHANGED docs
  /\ overlapUnchanged

\* update({ openai_file_id: uploadedFileId, status: 'processing', updated_at })
\* .eq('id', document.id), then the handler's test for analyzeDocument.
overlap_writeProcessing(k, outcome) ==
  /\ invocations[k].pc = "writeProcessing"
  /\ LET inv == invocations[k]
         result == processedResult(inv.loc.doc, inv.loc.uploadedFileId)
     IN /\ docs' = StoreUpdate(docs, inv.loc.doc, processingPatch(inv.loc.uploadedFileId), outcome)
        /\ invocations' = [invocations EXCEPT ![k] =
             IF outcome # "ok"
               THEN [inv EXCEPT !.loc.err = "update", !.pc = "uploaderCatch"]
             ELSE IF RunsAnalyzer(result)
               THEN [inv EXCEPT !.loc.result = result, !.pc = "inference"]
             ELSE overlap_next(inv, result)]
  /\ overlapUnchanged

\* The catch block of processDocument: update({ status: 'error', updated_at }).
overlap_uploaderCatch(k, outcome) ==
  /\ invocations[k].pc = "uploaderCatch"
  /\ LET inv == invocations[k] IN
     /\ docs' = StoreUpdate(docs, inv.loc.doc, uploaderErrorPatch(variant, inv.loc.err), outcome)
     /\ invocations' = [invocations EXCEPT ![k] =
                          overlap_next(inv, errorResult(inv.loc.doc, inv.loc.err))]
  /\ overlapUnchanged

\* analyzeDocument up to its status write: the run is created and polled and
\* the messages are read; none of these requests touches the table. Either a
\* request fails or the run ends failed/cancelled/expired (thrown), or
\* `obligations` is computed from runResult.
overlap_analysis(k, thrown, runResult) ==
  /\ invocations[k].pc = "inference"
  /\ invocations' = [invocations EXCEPT ![k] =
       IF thrown THEN [@ EXCEPT !.loc.err = "run", !.pc = "analyzerCatch"]
       ELSE [@ EXCEPT !.loc.obligations = assistantsObligations(runResult),
                      !.pc = "writeAnalyzed"]]
  /\ UNCHANGED docs
  /\ overlapUnchanged

\* update({ status: 'analyzed', analysis_results: obligations, updated_at })
overlap_writeAnalyzed(k, outcome) ==
  /\ invocations[k].pc = "writeAnalyzed"
  /\ LET inv == invocations[k] IN
     /\ docs' = StoreUpdate(docs, inv.loc.doc, analyzedPatch(inv.loc.obligations), outcome)
     /\ invocations' = [invocations EXCEPT ![k] =
          IF outcome = "ok" THEN overlap_next(inv, inv.loc.result)
          ELSE [inv EXCEPT !.loc.err = "update", !.pc = "analyzerCatch"]]
  /\ overlapUnchanged

\* The catch block of analyzeDocument: update({ status: 'error', updated_at }).
overlap_analyzerCatch(k, outcome) ==
  /\ invocations[k].pc = "analyzerCatch"
  /\ LET inv == invocations[k] IN
     /\ docs' = StoreUpdate(docs, inv.loc.doc, analyzerErrorPatch(variant, inv.loc.err), outcome)
     /\ invocations' = [invocations EXCEPT ![k] = overlap_next(inv, inv.loc.result)]
  /\ overlapUnchanged

\* return new Response(JSON.stringify({ success: true, ... }))
overlap_respond(k) ==
  /\ invocations[k].pc = "respond"
  /\ invocations' = [invocations EXCEPT ![k].pc = "done"]
  /\ UNCHANGED docs
  /\ overlapUnchanged

\* The run results of the overlap: no assistant message, and one list.
OverlapResults ==
  {[present |-> FALSE, text |-> <<>>],
   [present |-> TRUE, text |-> <<"fence", "[", "obj", "]", "fence">>]}

\* Some documents were uploaded and are pending when the two requests arrive.
InitOverlap ==
  /\ variant = "assistants"
  /\ pc = "idle"
  /\ \E S \in SUBSET Docs :
       /\ S # {}
       /\ docs = [d \in Docs |-> IF d \in S THEN PendingRow ELSE AbsentRow]
  /\ user_id = [d \in Docs |-> "u1"]
  /\ batchNo = 0
  /\ snapshot = <<>>
  /\ idx = 1
  /\ results = <<>>
  /\ loc = NoLoc
  /\ response = "none"
  /\ request = "none"
  /\ sent = NoWrite
  /\ providerFiles = {}
  /\ deleteCalls = {}
  /\ analyzerCalls = {}
  /\ storeAtStart = [d \in Docs |-> AbsentRow]
  /\ prevSelected = {}
  /\ invocations = [k \in Invocations |-> NoInvocation]
  /\ upload = NoUpload
  /\ normIn = <<>>
  /\ normOut = [done |-> FALSE]
  /\ ViewUnmounted
  /\ PollIdle
  /\ ExportIdle

NextOverlap ==
  \E k \in Invocations :
    \/ overlap_fetch(k)
    \/ \E ok \in BOOLEAN : overlap_download(k, ok)
    \/ \E a \in UploadAnswers : overlap_upload(k, a)
    \/ \E o \in Outcomes : overlap_writeProcessing(k, o)
    \/ \E o \in Outcomes : overlap_uploaderCatch(k, o)
    \/ \E t \in BOOLEAN, r \in OverlapResults : overlap_analysis(k, t, r)
    \/ \E o \in Outcomes : overlap_writeAnalyzed(k, o)
    \/ \E o \in Outcomes : overlap_analyzerCatch(k, o)
    \/ overlap_respond(k)

SpecOverlap == InitOverlap /\ [][NextOverlap]_vars

\* ------------------------------------------------------- the Upload page
\* src/src/pages/Upload.tsx: handleSubmit stores each selected file in the
\* bucket, inserts its row, and triggers the pipeline when all of it worked.
uploadUnchanged ==
  UNCHANGED << variant, user_id, request, pc, batchNo, snapshot, idx, results, loc,
               response, sent, providerFiles, deleteCalls, analyzerCalls, storeAtStart,
               prevSelected, invocations, normIn, normOut, viewVars, pollVars,
               exportVars >>

\* The ids the table has not given out yet; an insert takes the least one.
freeIds(table) == {d \in Docs : table[d].status = "none"}

nextId(table) == CHOOSE d \in freeIds(table) : \A e \in freeIds(table) : d <= e

\* `${userId}/${uuidv4()}.${fileExt}`: a path no earlier upload has used.
filePath(u) == << "contracts", u.submits, u.i >>

\* The end of one turn of `for (const file of files)`; after the last turn
\* the pipeline is triggered if allUploadsSuccessful held, else the submit
\* ends with setIsLoading(false).
afterFile_triggersAlways(u, ok) ==
  [u EXCEPT !.allUploadsSuccessful = @ /\ ok,
            !.uploadResult = NoFile,
            !.i = @ + 1,
            !.pc = IF u.i < u.files THEN "upload" ELSE "invoke"]

afterFile(u, ok) ==
  [u EXCEPT !.allUploadsSuccessful = @ /\ ok,
            !.uploadResult = NoFile,
            !.i = @ + 1,
            !.pc = IF u.i < u.files THEN "upload"
                   ELSE IF u.allUploadsSuccessful /\ ok THEN "invoke" ELSE "done"]

\* handleFilesAdded: setFiles(prevFiles => [...prevFiles, ...newFiles])
handleFilesAdded(n) ==
  /\ upload.pc \in {"idle", "done"}
  /\ upload.files + n <= MaxDocs
  /\ upload' = [upload EXCEPT !.files = @ + n]
  /\ UNCHANGED docs
  /\ uploadUnchanged

\* handleSubmit up to its loop: no file, no party or no user returns at once.
handleSubmit(party, signedIn) ==
  /\ upload.pc \in {"idle", "done"}
  /\ upload.submits < MaxSubmits
  /\ Cardinality(freeIds(docs)) >= upload.files
  /\ upload' = [upload EXCEPT
       !.submits = @ + 1,
       !.invoked = 0,
       !.i = 1,
       !.allUploadsSuccessful = TRUE,
       !.uploadResult = NoFile,
       !.pc = IF upload.files = 0 \/ ~party \/ ~signedIn THEN "done" ELSE "upload"]
  /\ UNCHANGED docs
  /\ uploadUnchanged

\* uploadFileToSupabase: supabase.storage.from('contracts').upload(filePath, file);
\* a failure returns null and the loop goes on to the next file.
uploadFileToSupabase(ok) ==
  /\ upload.pc = "upload"
  /\ upload' = IF ok
                 THEN [upload EXCEPT !.blobs = @ \cup {filePath(upload)},
                                     !.uploadResult = filePath(upload),
                                     !.pc = "save"]
                 ELSE afterFile(upload, FALSE)
  /\ UNCHANGED docs
  /\ uploadUnchanged

\* saveDocumentToDatabase: insert({ user_id, filename, file_path, file_size,
\* party, status: 'pending' }); a failure returns false.
saveDocumentToDatabase(ok) ==
  /\ upload.pc = "save"
  /\ IF ok
       THEN /\ docs' = [docs EXCEPT ![nextId(docs)] = PendingRow]
            /\ upload' = [afterFile(upload, TRUE) EXCEPT
                            !.file_path[nextId(docs)] = upload.uploadResult]
       ELSE /\ docs' = docs
            /\ upload' = afterFile(upload, FALSE)
  /\ uploadUnchanged

\* processDocuments: supabase.functions.invoke('process-documents'); whatever
\* it answers, handleSubmit goes on to its toast and resets the form.
processDocuments(ok) ==
  /\ upload.pc = "invoke"
  /\ upload' = [upload EXCEPT !.invoked = @ + 1, !.files = 0, !.pc = "done"]
  /\ UNCHANGED docs
  /\ uploadUnchanged

InitUpload ==
  /\ variant = "assistants"
  /\ pc = "idle"
  /\ PipelineIdle
  /\ normIn = <<>>
  /\ normOut = [done |-> FALSE]
  /\ ViewUnmounted
  /\ PollIdle
  /\ ExportIdle

NextUpload ==
  \/ \E n \in 1..MaxDocs : handleFilesAdded(n)
  \/ \E party \in BOOLEAN, signedIn \in BOOLEAN : handleSubmit(party, signedIn)
  \/ \E ok \in BOOLEAN : uploadFileToSupabase(ok)
  \/ \E ok \in BOOLEAN : saveDocumentToDatabase(ok)
  \/ \E ok \in BOOLEAN : processDocuments(ok)

SpecUpload == InitUpload /\ [][NextUpload]_vars

\* ------------------------------------------------------------ properties
\* C1: in every reachable state a document whose stored status is 'analyzed'
\* has a non-null analysis_results value, also when the provider's text could
\* not be parsed (a placeholder obligation is stored then).
Inv_C1 ==
  \A d \in Docs : docs[d].status = "analyzed" => docs[d].analysis_results # JNull

\* A document is 'analyzed' with the placeholder stored for a text no list
\* could be extracted from.
Wit_C1 ==
  \E d \in Docs :
    /\ docs[d].status = "analyzed"
    /\ IsPlaceholder(docs[d].analysis_results)
    /\ docs[d].analysis_results.items[1].obligation = "Could not extract JSON from response"

\* C2: the batch never aborts on a per-document failure: the loop pushes one
\* entry per document in snapshot order, and an invocation that fetched a
\* non-empty snapshot answers with exactly one entry per snapshot document.
Inv_C2 ==
  /\ Len(results) <= Len(snapshot)
  /\ \A i \in 1..Len(results) : results[i].documentId = snapshot[i]
  /\ (pc = "done" /\ snapshot # <<>>) =>
       /\ response = "ok"
       /\ Len(results) = Len(snapshot)

\* A finished batch of two documents whose first document failed and whose
\* error-status write failed as well (the row is still 'pending'), and whose
\* second document was processed all the same.
Wit_C2 ==
  /\ variant # "chat"
  /\ pc = "done"
  /\ Len(snapshot) = 2
  /\ Len(results) = 2
  /\ results[1].status = "error"
  /\ docs[snapshot[1]].status = "pending"
  /\ results[2].status = "processed"

\* C3: within a batch analyzeDocument is called for a document if and only if
\* processDocument returned success for it, and every call receives a non-null
\* file handle, the one stored in the document's row.
Cex_C3 ==
  pc = "done" =>
    /\ \A i \in 1..Len(results) :
         (results[i].status = "processed")
           <=> (\E c \in analyzerCalls : c.doc = results[i].documentId)
    /\ \A c \in analyzerCalls :
         /\ c.fileId # NoFile
         /\ SendsUpdates(variant) => c.fileId = docs[c.doc].openai_file_id

\* C4: every update processDocument sends sets status 'processing' or 'error'
\* and never names analysis_results, on every path (download failure, provider
\* rejection, status-write failure, success).
Inv_C4 ==
  sent.stage = "uploader" =>
    /\ sent.patch.status \in {"processing", "error"}
    /\ "analysis_results" \notin DOMAIN sent.patch

\* processDocument's catch sends the 'error' update after its 'processing'
\* update failed.
Wit_C4 ==
  /\ sent.stage = "uploader"
  /\ sent.cause = "update"
  /\ sent.patch.status = "error"

\* C5: in every reachable state a 'pending' document has a null file handle
\* and a 'processing', 'analyzed' or 'analysis_error' document a non-null one.
Cex_C5 ==
  \A d \in Docs :
    /\ docs[d].status = "pending" => docs[d].openai_file_id = NoFile
    /\ docs[d].status \in {"processing", "analyzed", "analysis_error"}
         => docs[d].openai_file_id # NoFile

\* C6, as stated: an invocation started when every existing document was
\* already selected by an earlier invocation selects nothing and changes no
\* stored document.
Cex_C6 ==
  (batchNo >= 2 /\ \A d \in Docs : storeAtStart[d].status # "none" => d \in prevSelected)
    => /\ snapshot = <<>>
       /\ \A d \in Docs : storeAtStart[d].status # "none" => docs[d] = storeAtStart[d]

\* C6: an invocation selects only documents that were 'pending' with a null
\* handle when it started; a document whose status was then 'processing',
\* 'analyzed', 'error' or 'analysis_error' is not selected, not downloaded,
\* uploaded or analyzed, and its row is not changed.
Inv_C6 ==
  /\ \A i \in 1..Len(snapshot) :
       /\ storeAtStart[snapshot[i]].status = "pending"
       /\ storeAtStart[snapshot[i]].openai_file_id = NoFile
  /\ \A d \in Docs :
       storeAtStart[d].status \in {"processing", "analyzed", "error", "analysis_error"} =>
         /\ d \notin Range(snapshot)
         /\ docs[d] = storeAtStart[d]
         /\ loc.doc # d
         /\ \A c \in analyzerCalls : c.doc # d
         /\ \A f \in providerFiles \cup deleteCalls : f[1] # d

\* The second invocation has processed a non-empty snapshot while a document
\* the first invocation had selected and moved to 'analyzed' was in the table.
Wit_C6 ==
  /\ batchNo = 2
  /\ pc = "done"
  /\ snapshot # <<>>
  /\ \E d \in prevSelected : storeAtStart[d].status = "analyzed"

\* C7: the entry pushed for a document reports the outcome of both stages: a
\* document whose processing ended in a failure does not get a 'processed'
\* entry.
Cex_C7 ==
  [][(Len(results') = Len(results) + 1 /\ loc.err # "none")
       => results'[Len(results')].status # "processed"]_vars

\* C8: when the normalisation ends in the placeholder, the placeholder's
\* raw_response holds the original provider text.
Cex_C8 ==
  (normOut.done /\ IsPlaceholder(normOut.responses))
    => normOut.responses.items[1].raw_response = normIn

\* C9: whenever analyzeDocument sends analysis_results, the value is an array.
Cex_C9 ==
  (sent.stage = "analyzer" /\ "analysis_results" \in DOMAIN sent.patch)
    => sent.patch.analysis_results.kind = "array"

\* C10: when the inference request fails, the update analyzeDocument sends
\* sets status 'analysis_error' and carries the error message.
Cex_C10 ==
  (sent.stage = "analyzer" /\ sent.cause = "inference")
    => /\ sent.patch.status = "analysis_error"
       /\ "error_message" \in DOMAIN sent.patch

\* C11: when the storage download fails, processDocument marks the document
\* 'error' (sends that update), returns failure, has made no file-ingestion
\* call for the document, and analyzeDocument is not run for it.
Cex_C11 ==
  [][(pc = "uploaderCatch" /\ loc.err = "download" /\ pc' # pc)
       => /\ sent'.stage = "uploader"
          /\ sent'.id = loc.doc
          /\ sent'.patch.status = "error"
          /\ results'[Len(results')].status = "error"
          /\ \A f \in providerFiles' \cup deleteCalls' : f[1] # loc.doc
          /\ \A c \in analyzerCalls' : c.doc # loc.doc]_vars

\* C12: no document is in 'error' or 'analysis_error' with a null
\* error_message.
Cex_C12 ==
  \A d \in Docs :
    docs[d].status \in {"error", "analysis_error"} => docs[d].error_message # NoMessage

Cex_C14 ==
  pc = "done" =>
    \A d \in Docs :
      (docs[d].status = "analyzed" /\ storeAtStart[d].status = "pending")
        => docs[d].openai_file_id \in deleteCalls

\* C15: within one invocation the documents are processed one at a time: while
\* the loop is at row idx, one entry has been pushed for every earlier row, the
\* document in work is row idx, no local of an earlier document is alive when
\* the download of row idx starts, and no later row has been touched (its row
\* is as it was at the start, no file and no analysis call exists for it).
Inv_C15 ==
  pc \in {"download", "upload", "writeProcessing", "uploaderCatch", "inference",
          "poll", "messages", "writeAnalyzed", "analyzerCatch", "cleanup"} =>
    /\ idx \in 1..Len(snapshot)
    /\ Len(results) = idx - 1
    /\ IF pc = "download" THEN loc = NoLoc ELSE loc.doc = snapshot[idx]
    /\ \A j \in (idx + 1)..Len(snapshot) :
         /\ docs[snapshot[j]] = storeAtStart[snapshot[j]]
         /\ \A f \in providerFiles \cup deleteCalls : f[1] # snapshot[j]
         /\ \A c \in analyzerCalls : c.doc # snapshot[j]

\* The first document of the snapshot is 'analyzed' and the download of the
\* second is about to start.
Wit_C15 ==
  /\ pc = "download"
  /\ idx = 2
  /\ docs[snapshot[1]].status = "analyzed"

\* C16: no retries within an invocation: processDocument starts only on a
\* document no entry was pushed for yet, analyzeDocument is called only for a
\* document it was not called for yet, and no update is sent for a document
\* whose stored status is 'analyzed', 'error' or 'analysis_error'.
Inv_C16 ==
  [][/\ (pc = "download" /\ pc' # pc)
          => \A i \in 1..Len(results) : results[i].documentId # loc'.doc
     /\ (pc # "inference" /\ pc' = "inference")
          => \A c \in analyzerCalls : c.doc # loc.doc
     /\ (pc' # pc /\ sent'.stage # "none")
          => docs[sent'.id].status \notin {"analyzed", "error", "analysis_error"}]_vars

\* A finished invocation over two documents: the first was left in 'error',
\* the second in 'analyzed'.
Wit_C16 ==
  /\ pc = "done"
  /\ Len(snapshot) = 2
  /\ docs[snapshot[1]].status = "error"
  /\ docs[snapshot[2]].status = "analyzed"

\* C17: in the consolidated list the obligations with a valid due date come
\* first, in ascending order of date, and the obligations whose due date is
\* missing or cannot be read come after them.
Cex_C17 ==
  (viewPc = "shown" /\ Len(contracts) > 1) =>
    \A i, j \in 1..Len(consolidatedObligations) :
      i < j =>
        LET di == dueDateOf(consolidatedObligations[i])
            dj == dueDateOf(consolidatedObligations[j])
        IN isValidDate(dj) => (isValidDate(di) /\ getTime(di) <= getTime(dj))

\* C18: when no obligation of any analyzed document has a due date, the
\* consolidated list is the list as it was formed: the documents in the order
\* they were fetched, the obligations of a document in their order.
Inv_C18 ==
  (/\ viewPc = "shown"
   /\ Len(contracts) > 1
   /\ \A i \in 1..Len(contracts) :
        \A k \in 1..Len(contracts[i].analysis_results.items) :
          dueDateOf(contracts[i].analysis_results.items[k]) = NoDate)
    => /\ consolidatedObligations = allObligations(viewVariant, contracts, 1)
       /\ \A i, j \in 1..Len(consolidatedObligations) :
            i < j => consolidatedObligations[i].documentId
                       <= consolidatedObligations[j].documentId

Wit_C18 ==
  /\ viewPc = "shown"
  /\ Len(contracts) > 1
  /\ \A i \in 1..Len(contracts) :
       \A k \in 1..Len(contracts[i].analysis_results.items) :
         dueDateOf(contracts[i].analysis_results.items[k]) = NoDate
  /\ Len(consolidatedObligations) = 3
  /\ consolidatedObligations[1].documentId = 1
  /\ consolidatedObligations[3].documentId = 2

\* C19: when more than one analyzed document was fetched, no analyzed
\* document is left out of the documents whose obligations are consolidated.
Cex_C19 ==
  (/\ viewPc = "shown"
   /\ Cardinality({i \in 1..Len(viewData) : viewData[i].status = "analyzed"}) > 1)
    => \A i \in 1..Len(viewData) :
         viewData[i].status = "analyzed" =>
           \E j \in 1..Len(contracts) : contracts[j].id = viewData[i].id

\* C20: after a fetch the count of pending work is the number of documents
\* that are 'pending' or 'processing', polling is wanted exactly when that
\* number is positive, and only 'analyzed' documents are in the registry: a
\* document in 'error' or 'analysis_error' is counted nowhere.
Inv_C20 ==
  viewPc = "shown" =>
    /\ pendingDocuments =
         Cardinality({i \in 1..Len(viewData) : viewData[i].status \in {"pending", "processing"}})
    /\ isPolling <=> (\E i \in 1..Len(viewData) : viewData[i].status \in {"pending", "processing"})
    /\ \A j \in 1..Len(contracts) :
         /\ contracts[j].status = "analyzed"
         /\ \E i \in 1..Len(viewData) : viewData[i] = contracts[j]
    /\ \A k \in 1..Len(consolidatedObligations) :
         viewData[consolidatedObligations[k].documentId].status = "analyzed"

Wit_C20 ==
  /\ viewPc = "shown"
  /\ \E i \in 1..Len(viewData) : viewData[i].status \in {"error", "analysis_error"}
  /\ \E i \in 1..Len(viewData) : viewData[i].status = "analyzed"
  /\ pendingDocuments = 0
  /\ ~isPolling
  /\ Len(contracts) = 1

\* C21: when polling is active and a fetch of the mounted page shows that no
\* document is pending any more, the completion notice is surfaced once.
Cex_C21 ==
  [][(/\ mounted
      /\ isPolling
      /\ fetchesStarted' - inflight'[TRUE] - inflight'[FALSE]
           = fetchesStarted - inflight[TRUE] - inflight[FALSE] + 1
      /\ viewPc' = "shown"
      /\ pendingDocuments' = 0)
       => notices' = notices + 1]_vars

\* C22: at most one interval timer is set at any time; one is set exactly
\* while the page is mounted with a user and isPolling is true; none is left
\* after the page was unmounted.
Inv_C22 ==
  /\ timers \in {0, 1}
  /\ timers = 1 <=> (mounted /\ user /\ isPolling)
  /\ ~mounted => timers = 0

Wit_C22 ==
  /\ viewPc = "unmounted"
  /\ isPolling
  /\ user
  /\ timers = 0
  /\ fetchesStarted = MaxFetches

\* C23: when the export-obligations function is invoked with an empty
\* obligations array it does not POST to the webhook, and it answers with a
\* failure.
Cex_C23 ==
  [][(/\ exportPc = "invoked"
      /\ exportPc' = "answered"
      /\ exportReq.obligations = JArr(<<>>))
       => /\ sinkCalls' = sinkCalls
          /\ ~exportResponse'.success]_vars

\* C24: when the webhook answered the page's export with a failure, no URL
\* is surfaced, the export is reported as failed and the message shown is
\* the webhook's error text, unchanged.
Cex_C24 ==
  (/\ exportPc = "done"
   /\ exportReq.caller = "page"
   /\ sinkCalls # <<>>
   /\ ~sinkCalls[Len(sinkCalls)].answer.ok)
    => /\ documentUrl = NoFile
       /\ toast.title = "Export failed"
       /\ toast.description = sinkCalls[Len(sinkCalls)].answer.text

\* C25: the documents a batch selects belong to one owner.
Cex_C25 ==
  \A i, j \in 1..Len(snapshot) : user_id[snapshot[i]] = user_id[snapshot[j]]

\* C26: a row of the documents table changes only by the insert of the upload
\* flow or by the update the step sent for that very row; the update names
\* only status, openai_file_id, analysis_results, error_message and
\* updated_at, every column it does not name keeps its value, and user_id
\* never changes.
Inv_C26 ==
  [][/\ user_id' = user_id
     /\ \A d \in Docs :
          docs'[d] # docs[d] =>
            \/ docs[d] = AbsentRow /\ docs'[d] = PendingRow
            \/ /\ sent'.stage # "none"
               /\ sent'.id = d
               /\ sent'.outcome = "ok"
               /\ DOMAIN sent'.patch \subseteq
                    {"status", "openai_file_id", "analysis_results", "error_message",
                     "updated_at"}
               /\ \A f \in DOMAIN docs[d] :
                    docs'[d][f] = IF f \in DOMAIN sent'.patch THEN sent'.patch[f]
                                  ELSE docs[d][f]]_vars

Wit_C26 ==
  /\ sent.stage = "analyzer"
  /\ sent.outcome = "ok"
  /\ DOMAIN sent.patch = {"status", "analysis_results"}
  /\ docs[sent.id].status = "analyzed"
  /\ Truthy(docs[sent.id].openai_file_id)
  /\ \E d \in Docs : d # sent.id /\ docs[d] = PendingRow

\* C27: when the analysis found no obligation (the list to save is empty) and
\* the write of the result does not fail, the document is moved to 'analyzed'
\* and the empty list is saved as its analysis_results.
Cex_C27 ==
  [][(/\ pc = "writeAnalyzed"
      /\ loc.obligations = JArr(<<>>)
      /\ pc' \notin {"writeAnalyzed", "analyzerCatch"})
       => /\ docs'[loc.doc].status = "analyzed"
          /\ docs'[loc.doc].analysis_results = JArr(<<>>)]_vars

\* C28: when a batch invocation has returned, every document of its backlog
\* snapshot has a persisted terminal status ('analyzed', 'error' or
\* 'analysis_error'); none is left 'pending' or 'processing'.
Cex_C28 ==
  pc = "done" =>
    \A i \in 1..Len(snapshot) :
      docs[snapshot[i]].status \in {"analyzed", "error", "analysis_error"}

\* C30: in the run-polling Analyzer a document is written 'analyzed' only when
\* the last status read for its run was 'completed'; a run that left the
\* polling loop with any other status never gives an 'analyzed' document.
Cex_C30 ==
  [][(/\ variant = "assistants"
      /\ pc = "writeAnalyzed"
      /\ docs'[loc.doc].status = "analyzed"
      /\ docs[loc.doc].status # "analyzed")
       => loc.runStatus = "completed"]_vars

\* C29: with two overlapping invocations over the same pending documents,
\* every step leaves the table with obligations on every 'analyzed' row and a
\* handle on every 'processing' or 'analyzed' row, and no step moves a row
\* that is 'analyzed' back to 'processing' or 'error'.
Cex_C29 ==
  [][\A d \in Docs :
       /\ docs'[d].status = "analyzed" => docs'[d].analysis_results # JNull
       /\ docs'[d].status \in {"processing", "analyzed"} => docs'[d].openai_file_id # NoFile
       /\ docs[d].status = "analyzed" => docs'[d].status \notin {"processing", "error"}]_vars

\* C33: an invocation whose request has no Authorization header, whose backlog
\* query fails or whose backlog query finds no document returns at once: the
\* documents table is as it was, no update was sent, no file was downloaded,
\* uploaded, analyzed or deleted, and the answer is 401, 500 and
\* `processed: 0` respectively.
Inv_C33 ==
  [][(/\ pc \in {"idle", "done"}
      /\ batchNo' = batchNo + 1
      /\ \/ request' \in {"noAuthorization", "queryFails"}
         \/ request' = "served" /\ snapshot' = <<>>)
       => /\ pc' = "done"
          /\ docs' = docs
          /\ sent' = NoWrite
          /\ loc' = NoLoc
          /\ providerFiles' = {} /\ deleteCalls' = {} /\ analyzerCalls' = {}
          /\ results' = <<>>
          /\ request' = "noAuthorization" => response' = "401"
          /\ request' = "queryFails" => response' = "500"
          /\ request' = "served" => response' \in {"ok0", "ok"}]_vars

\* The second request's backlog query failed while a document was pending:
\* the answer is 500 and the document is still pending with no handle.
Wit_C33 ==
  /\ pc = "done"
  /\ batchNo = 2
  /\ request = "queryFails"
  /\ response = "500"
  /\ \E d \in Docs : docs[d] = PendingRow

\* C34: in the view with the batch window, after a fetch the consolidated
\* register is displayed if and only if at least two analyzed documents were
\* updated less than ten minutes from the most recently updated analyzed
\* document (itself included); never with no or one analyzed document.
Cex_C34 ==
  (viewVariant = "windowed" /\ viewPc = "shown") =>
    LET analyzed == {i \in 1..Len(viewData) : viewData[i].status = "analyzed"}
        latest == CHOOSE t \in Times :
                    /\ \E i \in analyzed : viewData[i].updated_at = t
                    /\ \A i \in analyzed : viewData[i].updated_at <= t
        batch == {i \in analyzed : latest - viewData[i].updated_at < WindowMinutes}
    IN showConsolidated <=> (analyzed # {} /\ Cardinality(batch) >= 2)

\* C32: every row of the documents table is the row the upload flow inserts
\* (pending, no handle, no obligations) and refers to a blob the bucket
\* holds; a submit calls the process-documents function at most once, and only
\* after each of its files was stored and recorded; a submit that ended after
\* some file failed has made no call and its rows are pending.
Inv_C32 ==
  /\ \A d \in Docs :
       docs[d].status # "none" =>
         /\ docs[d] = PendingRow
         /\ upload.file_path[d] \in upload.blobs
  /\ upload.invoked <= 1
  /\ upload.invoked = 1 =>
       /\ upload.i > 1
       /\ \A j \in 1..(upload.i - 1) :
            /\ << "contracts", upload.submits, j >> \in upload.blobs
            /\ \E d \in Docs : /\ docs[d] = PendingRow
                               /\ upload.file_path[d] = << "contracts", upload.submits, j >>
  /\ (upload.pc = "done" /\ ~upload.allUploadsSuccessful) => upload.invoked = 0

\* A submit of two files ended: the first was stored and recorded, the second
\* failed; no call was made and the first file's row is pending.
Wit_C32 ==
  /\ upload.pc = "done"
  /\ upload.files = 2
  /\ ~upload.allUploadsSuccessful
  /\ upload.invoked = 0
  /\ \E d \in Docs : /\ docs[d] = PendingRow
                     /\ upload.file_path[d] = << "contracts", upload.submits, 1 >>

\* C31: when every awaited request is answered and the provider does not
\* report 'queued' or 'in_progress' for ever, an invocation that has started
\* on its snapshot ends with its answer; and a turn of the polling loop that
\* read 'queued' or 'in_progress' never leaves the loop.
Live_C31 ==
  /\ (pc \notin {"idle", "done"}) ~> (pc = "done" /\ response = "ok")
  /\ [][(pc = "poll" /\ pc' # "poll" /\ loc'.err # "poll")
          => loc'.runStatus \notin {"queued", "in_progress"}]_vars

\* The polling loop has read 'queued' and then 'in_progress' for the second
\* document of a snapshot and is about to read the run again.
Wit_C31 ==
  /\ variant = "assistants"
  /\ pc = "poll"
  /\ idx = 2
  /\ loc.runStatus = "in_progress"

====
